---- MODULE Spec2Model ----
(***************************************************************************)
(* Blackboard agent: the capacity-bounded Blackboard (core/blackboard.ts), *)
(* the token estimator (utils/token-counter.ts), tool dispatch             *)
(* (core/agent-tools.ts, core/tool-definitions.ts) and the agent loop      *)
(* (core/agent-loop.ts, driven by BlackboardAgent in core/agent.ts).       *)
(*                                                                         *)
(* Text is a sequence of one-character strings.  Dates are readings of a   *)
(* clock `now` that ticks once per Blackboard operation / tool call.       *)
(*                                                                         *)
(* Two specifications share the state:                                     *)
(*   SpecBB  a caller applies updateSection / removeSection in any order   *)
(*   Spec    one BlackboardAgent.analyze() run                             *)
(***************************************************************************)
EXTENDS Integers, Sequences, FiniteSets, TLC

\* ---------------------------------------------------------------- bounds
\* soft budget handed to the Blackboard constructor (default 4000 in the code)
MaxTokens == 10
\* config.maxIterations of the run (default 100 in the code)
MaxIterations == 4
\* number of Blackboard API calls a SpecBB behaviour makes
MaxOps == 3

\* longest text handed to estimateTokens on its own
MaxLen == 5

\* most files in the sessions directory
MaxSessions == 3

\* most entries of a directory searched by grepSearch
MaxFiles == 2

\* largest maxResults handed to grepSearch
MaxResults == 2

\* ---------------------------------------------------------------- text
Rep(c, n) == [i \in 1..n |-> c]

\* characters String.prototype.trim removes (those the model uses)
IsWhitespace(c) == c \in {" ", "\n"}

\* number of whitespace characters at the start of text, from position i on
RECURSIVE LeadingWhitespace(_, _)
LeadingWhitespace(text, i) ==
  IF i > Len(text) \/ ~IsWhitespace(text[i]) THEN 0
  ELSE 1 + LeadingWhitespace(text, i + 1)

\* number of whitespace characters at the end of text, from position i back
RECURSIVE TrailingWhitespace(_, _)
TrailingWhitespace(text, i) ==
  IF i < 1 \/ ~IsWhitespace(text[i]) THEN 0
  ELSE 1 + TrailingWhitespace(text, i - 1)

\* String.prototype.trim
trim(text) ==
  LET lead == LeadingWhitespace(text, 1) IN
  IF lead = Len(text) THEN <<>>
  ELSE SubSeq(text, lead + 1, Len(text) - TrailingWhitespace(text, Len(text)))

\* mutant of estimateTokens: the text is not trimmed
estimateTokensUntrimmed(text) == (Len(text) + 3) \div 4

\* Math.ceil(cleaned.length / 4)
estimateTokens(text) == (Len(trim(text)) + 3) \div 4

\* ---------------------------------------------------------------- Blackboard
\* the Map `sections` is a sequence of section records in key insertion order

\* new Blackboard(targetPath, maxTokens, id) at clock reading t
NewBlackboard(targetPath, maxTokens, t) ==
  [id |-> "bb_1", targetPath |-> targetPath, sections |-> <<>>,
   maxTokens |-> maxTokens, createdAt |-> t, updatedAt |-> t]

\* position of the key in the Map, 0 when the key is absent
KeyIndex(sections, sectionName) ==
  IF \E i \in 1..Len(sections) : sections[i].name = sectionName
  THEN CHOOSE i \in 1..Len(sections) : sections[i].name = sectionName
  ELSE 0

RECURSIVE SumTokens(_)
SumTokens(sections) ==
  IF sections = <<>> THEN 0
  ELSE Head(sections).tokens + SumTokens(Tail(sections))

getTotalTokens(b) == SumTokens(b.sections)

getMaxTokens(b) == b.maxTokens

\* mutant of getRemainingTokens: measured against the hard cap
getRemainingTokensAgainstHardCap(b) ==
  IF (b.maxTokens * 12) \div 10 - getTotalTokens(b) > 0
  THEN (b.maxTokens * 12) \div 10 - getTotalTokens(b) ELSE 0

\* Math.max(0, maxTokens - getTotalTokens())
getRemainingTokens(b) ==
  IF b.maxTokens - getTotalTokens(b) > 0
  THEN b.maxTokens - getTotalTokens(b) ELSE 0

\* Math.floor(maxTokens * OVERFLOW_FACTOR), OVERFLOW_FACTOR = 1.2
\* (the IEEE double product floors to the same integer for the budgets used)
hardCap(b) == (b.maxTokens * 12) \div 10

\* mutant of newContentOf: replace = true appends to an existing section too
newContentOfAlwaysAppends(b, sectionName, content, replace) ==
  LET k == KeyIndex(b.sections, sectionName) IN
  IF k = 0 THEN content
  ELSE IF b.sections[k].content # <<>>
       THEN b.sections[k].content \o <<"\n", "\n">> \o content
       ELSE content

\* mutant of newContentOf: an append to an empty section keeps the separator
newContentOfNoEmptyCheck(b, sectionName, content, replace) ==
  LET k == KeyIndex(b.sections, sectionName) IN
  IF replace \/ k = 0 THEN content
  ELSE b.sections[k].content \o <<"\n", "\n">> \o content

\* candidate content of updateSection
newContentOf(b, sectionName, content, replace) ==
  LET k == KeyIndex(b.sections, sectionName) IN
  IF replace \/ k = 0 THEN content
  ELSE IF b.sections[k].content # <<>>
       THEN b.sections[k].content \o <<"\n", "\n">> \o content
       ELSE content

\* currentTotal + (newTokens - currentSectionTokens)
newTotalOf(b, sectionName, newTokens) ==
  LET k == KeyIndex(b.sections, sectionName)
      currentSectionTokens == IF k = 0 THEN 0 ELSE b.sections[k].tokens
  IN getTotalTokens(b) + (newTokens - currentSectionTokens)

\* mutant of MapSet: setting an existing key moves it to the end
MapSetMovesToEnd(sections, section) ==
  LET k == KeyIndex(sections, section.name) IN
  IF k = 0 THEN Append(sections, section)
  ELSE Append(SubSeq(sections, 1, k - 1)
                \o SubSeq(sections, k + 1, Len(sections)), section)

\* Map.set: an existing key keeps its position, a new key goes last
MapSet(sections, section) ==
  LET k == KeyIndex(sections, section.name) IN
  IF k = 0 THEN Append(sections, section)
  ELSE [sections EXCEPT ![k] = section]

\* Map.delete
MapDelete(sections, sectionName) ==
  LET k == KeyIndex(sections, sectionName) IN
  IF k = 0 THEN sections
  ELSE SubSeq(sections, 1, k - 1) \o SubSeq(sections, k + 1, Len(sections))

\* the stored result of an accepted write
Committed(b, sectionName, newContent, newTokens, t) ==
  [b EXCEPT !.sections = MapSet(b.sections,
                                [name |-> sectionName, content |-> newContent,
                                 tokens |-> newTokens, updatedAt |-> t]),
            !.updatedAt = t]

\* mutant of updateSection: the cap is tested on the total before the write
updateSectionStaleTotal(b, sectionName, content, replace, t) ==
  LET newContent == newContentOf(b, sectionName, content, replace)
      newTokens  == estimateTokens(newContent)
      newTotal   == newTotalOf(b, sectionName, newTokens)
  IN IF getTotalTokens(b) > hardCap(b)
     THEN [success |-> FALSE, newTokens |-> newTokens, newTotal |-> newTotal,
           hardCap |-> hardCap(b), bb |-> b]
     ELSE [success |-> TRUE, newTokens |-> newTokens, newTotal |-> newTotal,
           hardCap |-> hardCap(b),
           bb |-> Committed(b, sectionName, newContent, newTokens, t)]

\* mutant of updateSection: a rejected write still bumps the blackboard's updatedAt
updateSectionTouchOnReject(b, sectionName, content, replace, t) ==
  LET newContent == newContentOf(b, sectionName, content, replace)
      newTokens  == estimateTokens(newContent)
      newTotal   == newTotalOf(b, sectionName, newTokens)
  IN IF newTotal > hardCap(b)
     THEN [success |-> FALSE, newTokens |-> newTokens, newTotal |-> newTotal,
           hardCap |-> hardCap(b), bb |-> [b EXCEPT !.updatedAt = t]]
     ELSE [success |-> TRUE, newTokens |-> newTokens, newTotal |-> newTotal,
           hardCap |-> hardCap(b),
           bb |-> Committed(b, sectionName, newContent, newTokens, t)]

\* mutant of updateSection: a write that reaches the hard cap is rejected
updateSectionRejectsAtCap(b, sectionName, content, replace, t) ==
  LET newContent == newContentOf(b, sectionName, content, replace)
      newTokens  == estimateTokens(newContent)
      newTotal   == newTotalOf(b, sectionName, newTokens)
  IN IF newTotal >= hardCap(b)
     THEN [success |-> FALSE, newTokens |-> newTokens, newTotal |-> newTotal,
           hardCap |-> hardCap(b), bb |-> b]
     ELSE [success |-> TRUE, newTokens |-> newTokens, newTotal |-> newTotal,
           hardCap |-> hardCap(b),
           bb |-> Committed(b, sectionName, newContent, newTokens, t)]

\* mutant of updateSection: the stored count is that of the argument, not
\* of the section's resulting content
updateSectionTokensOfArgument(b, sectionName, content, replace, t) ==
  LET newContent == newContentOf(b, sectionName, content, replace)
      newTokens  == estimateTokens(newContent)
      newTotal   == newTotalOf(b, sectionName, newTokens)
  IN IF newTotal > hardCap(b)
     THEN [success |-> FALSE, newTokens |-> newTokens, newTotal |-> newTotal,
           hardCap |-> hardCap(b), bb |-> b]
     ELSE [success |-> TRUE, newTokens |-> newTokens, newTotal |-> newTotal,
           hardCap |-> hardCap(b),
           bb |-> Committed(b, sectionName, newContent,
                            estimateTokens(content), t)]

\* Blackboard.updateSection; the returned message is determined by
\* success, newTokens, newTotal and hardCap
updateSection(b, sectionName, content, replace, t) ==
  LET newContent == newContentOf(b, sectionName, content, replace)
      newTokens  == estimateTokens(newContent)
      newTotal   == newTotalOf(b, sectionName, newTokens)
  IN IF newTotal > hardCap(b)
     THEN [success |-> FALSE, newTokens |-> newTokens, newTotal |-> newTotal,
           hardCap |-> hardCap(b), bb |-> b]
     ELSE [success |-> TRUE, newTokens |-> newTokens, newTotal |-> newTotal,
           hardCap |-> hardCap(b),
           bb |-> Committed(b, sectionName, newContent, newTokens, t)]

\* mutant of removeSection: a section with empty content counts as absent
removeSectionSkipsEmpty(b, sectionName, t) ==
  LET k == KeyIndex(b.sections, sectionName)
      deleted == k # 0 /\ b.sections[k].content # <<>>
  IN [deleted |-> deleted,
      bb |-> IF deleted
             THEN [b EXCEPT !.sections = MapDelete(b.sections, sectionName),
                            !.updatedAt = t]
             ELSE b]

\* Blackboard.removeSection
removeSection(b, sectionName, t) ==
  LET deleted == KeyIndex(b.sections, sectionName) # 0 IN
  [deleted |-> deleted,
   bb |-> IF deleted
          THEN [b EXCEPT !.sections = MapDelete(b.sections, sectionName),
                         !.updatedAt = t]
          ELSE b]

\* Blackboard.getSection: this.sections.get(sectionName)?.content || ''
getSection(b, sectionName) ==
  LET k == KeyIndex(b.sections, sectionName) IN
  IF k = 0 THEN <<>> ELSE b.sections[k].content

\* Blackboard.getSections: the stored sections with content.length > 0
getSections(b) == SelectSeq(b.sections, LAMBDA sec : Len(sec.content) > 0)

\* mutant of getSectionNames: every stored key is listed
getSectionNamesAllKeys(b) ==
  [i \in 1..Len(b.sections) |-> b.sections[i].name]

\* Blackboard.getSectionNames: the keys of the sections with content
getSectionNames(b) ==
  LET filled == SelectSeq(b.sections, LAMBDA sec : Len(sec.content) > 0) IN
  [i \in 1..Len(filled) |-> filled[i].name]

\* `${name}: ${result.message}` of a rejected seed entry
SeedFailure(sectionName, result) ==
  [name |-> sectionName, newTotal |-> result.newTotal,
   hardCap |-> result.hardCap]

\* the for loop of Blackboard.seed over Object.entries(sections): every
\* entry is written with replace = true, rejected ones are collected
RECURSIVE seedWrites(_, _, _)
seedWrites(b, entries, t) ==
  IF entries = <<>> THEN [bb |-> b, failures |-> <<>>]
  ELSE LET result == updateSection(b, Head(entries).key, Head(entries).value,
                                   TRUE, t)
           rest   == seedWrites(result.bb, Tail(entries), t)
       IN [bb |-> rest.bb,
           failures |-> (IF result.success THEN <<>>
                         ELSE <<SeedFailure(Head(entries).key, result)>>)
                        \o rest.failures]

\* mutant of seed: the blackboard is returned although writes were rejected
seedReturnsPartial(targetPath, sections, maxTokens, t) ==
  LET w == seedWrites(NewBlackboard(targetPath, maxTokens, t), sections, t) IN
  [threw |-> FALSE, failures |-> <<>>, returned |-> <<w.bb>>]

\* Blackboard.seed: what the caller gets, the thrown Error (its list of
\* failures) or the returned blackboard (returned holds it, <<>> on a throw)
seed(targetPath, sections, maxTokens, t) ==
  LET w == seedWrites(NewBlackboard(targetPath, maxTokens, t), sections, t) IN
  IF Len(w.failures) > 0
  THEN [threw |-> TRUE, failures |-> w.failures, returned |-> <<>>]
  ELSE [threw |-> FALSE, failures |-> <<>>, returned |-> <<w.bb>>]

\* the value of a property key that is an array index ("0", "1", ...), -1
\* for any other key
ArrayIndexOf(key) ==
  CASE key = "0" -> 0 [] key = "1" -> 1 [] key = "2" -> 2 [] OTHER -> -1

\* object[key] = value on a plain object, kept as the sequence of its own
\* properties in enumeration order: array-index keys ascending first, then
\* the other keys in insertion order
ObjectSet(object, key, value) ==
  LET entry   == [key |-> key, value |-> value]
      present == \E i \in 1..Len(object) : object[i].key = key
      smaller == {i \in 1..Len(object) :
                    /\ ArrayIndexOf(object[i].key) >= 0
                    /\ ArrayIndexOf(object[i].key) < ArrayIndexOf(key)}
  IN IF present
     THEN [i \in 1..Len(object) |->
             IF object[i].key = key THEN entry ELSE object[i]]
     ELSE IF ArrayIndexOf(key) < 0 THEN Append(object, entry)
     ELSE SubSeq(object, 1, Cardinality(smaller)) \o <<entry>>
          \o SubSeq(object, Cardinality(smaller) + 1, Len(object))

\* toJSON's loop: sectionsObj[key] = value for every Map entry in Map order
RECURSIVE SectionsObject(_)
SectionsObject(sections) ==
  IF sections = <<>> THEN <<>>
  ELSE ObjectSet(SectionsObject(SubSeq(sections, 1, Len(sections) - 1)),
                 sections[Len(sections)].name, sections[Len(sections)])

\* Date.prototype.toISOString: the instant as text, to the millisecond
toISOString(t) == [iso |-> t]

\* new Date(isoString)
DateFromISO(text) == text.iso

\* Blackboard.toJSON
toJSON(b) ==
  [id |-> b.id, targetPath |-> b.targetPath,
   sections |-> SectionsObject(b.sections),
   totalTokens |-> getTotalTokens(b), maxTokens |-> b.maxTokens,
   createdAt |-> toISOString(b.createdAt),
   updatedAt |-> toISOString(b.updatedAt)]

\* Blackboard.fromJSON at clock reading t: entries with falsy content are
\* skipped, the others are set in Object.entries order
fromJSON(data, t) ==
  LET kept == SelectSeq(data.sections, LAMBDA e : e.value.content # <<>>) IN
  [NewBlackboard(data.targetPath, data.maxTokens, t)
     EXCEPT !.id = data.id,
            !.createdAt = DateFromISO(data.createdAt),
            !.updatedAt = DateFromISO(data.updatedAt),
            !.sections = [i \in 1..Len(kept) |-> kept[i].value]]

\* ---------------------------------------------------------------- state
VARIABLES
  now,          \* clock: the last reading handed out by new Date()
  bb,           \* the Blackboard object
  lastCall,     \* SpecBB: the last Blackboard API call and what it returned
  pc,           \* control point of analyze()
  running,      \* runAgentLoop's local `running`
  stats,        \* AgentStats: iterations, toolCalls
  messages,     \* LoopState.messages: the archive built by the loop
  agentMessages,    \* BlackboardAgent.messages (this.messages)
  workingMessages,  \* runAgentLoop's rolling window
  response,     \* the model response being handled
  pending,      \* tool_use blocks of the response not dispatched yet
  toolResults,  \* processToolCalls' toolResults
  wroteToBlackboard,  \* processToolCalls' wroteToBlackboard
  iterationsSinceBlackboardWrite,
  completionNudges,
  toolCallHistory,
  events,       \* types of the events emitted so far
  artifacts,    \* what saveArtifacts handed to the output layer
  wroteLog,     \* history: per finished iteration, whether a write succeeded in it
  systemPrompt, \* the system prompt of the model call in flight
  raised,       \* the error analyze() rejected with ("" while none)
  prevCall,     \* SpecBB history: the Blackboard API call before lastCall
  seeded,       \* SpecBB: what the last Blackboard.seed call gave its caller
  compactToolHistory,  \* the compact line of every tool call
  usageLog,     \* history: response.usage of every response received
  tokenTexts,   \* SpecTokens: the two texts handed to estimateTokens
  tokenEstimates,  \* SpecTokens: what estimateTokens returned for them
  sessionFiles, \* SpecSession: the files of the sessions directory
  sessionQuery, \* SpecSession: the findSessionByPath call and its outcome
  grepTarget,   \* SpecGrep: the file or directory tree at targetPath
  grepCall,     \* SpecGrep: the grepSearch call and what it did
  historyCall,  \* SpecHistory: a finished list_dir or grep_search call
  historyLine   \* SpecHistory: its line in the compact history

vars == <<now, bb, lastCall, pc, running, stats, messages, agentMessages,
          workingMessages, response, pending, toolResults, wroteToBlackboard,
          iterationsSinceBlackboardWrite, completionNudges, toolCallHistory,
          events, artifacts, wroteLog, systemPrompt, raised, prevCall, seeded,
          compactToolHistory, usageLog, tokenTexts, tokenEstimates,
          sessionFiles, sessionQuery, grepTarget, grepCall, historyCall,
          historyLine>>

tokenVars == <<tokenTexts, tokenEstimates>>

sessionVars == <<sessionFiles, sessionQuery>>

grepVars == <<grepTarget, grepCall>>

historyVars == <<historyCall, historyLine>>

\* the state of the callers of the utility functions
utilVars == <<tokenVars, sessionVars, grepVars, historyVars>>

\* the state of a run and of the blackboard's callers
runVars == <<now, bb, lastCall, pc, running, stats, messages, agentMessages,
             workingMessages, response, pending, toolResults,
             wroteToBlackboard, iterationsSinceBlackboardWrite,
             completionNudges, toolCallHistory, events, artifacts, wroteLog,
             systemPrompt, raised, prevCall, seeded, compactToolHistory,
             usageLog>>

bbVars == <<now, bb, lastCall, prevCall, seeded>>

agentVars == <<pc, running, stats, messages, agentMessages, workingMessages,
               response, pending, toolResults, wroteToBlackboard,
               iterationsSinceBlackboardWrite, completionNudges,
               toolCallHistory, events, artifacts, wroteLog, systemPrompt,
               raised, compactToolHistory, usageLog, utilVars>>

\* ---------------------------------------------------------------- inputs
SectionNames == {"overview", "notes", "1"}

Half == Rep("a", 2 * MaxTokens)

\* contents a caller writes: empty, one token, leading whitespace, half the
\* soft budget, above half, and more than the hard cap on its own
Contents ==
  { <<>>, Rep("a", 4), <<" ", "a">>, Half, Rep("a", 2 * MaxTokens + 8),
    Rep("a", 4 * ((MaxTokens * 12) \div 10) + 1) }

Huge == Rep("a", 4 * ((MaxTokens * 12) \div 10) + 1)

Entry(key, value) == [key |-> key, value |-> value]

\* the maps a caller hands to Blackboard.seed, as their Object.entries: empty,
\* one entry, an entry above the hard cap after or before a small one, two
\* entries above the cap, two that only together exceed it, an empty content
SeedMaps ==
  { <<>>,
    <<Entry("overview", Rep("a", 4))>>,
    <<Entry("overview", Rep("a", 4)), Entry("notes", Huge)>>,
    <<Entry("overview", Huge), Entry("notes", Rep("a", 4))>>,
    <<Entry("overview", Huge), Entry("notes", Huge)>>,
    <<Entry("overview", Rep("a", 2 * MaxTokens + 8)),
      Entry("notes", Rep("a", 2 * MaxTokens + 8))>>,
    <<Entry("overview", Half), Entry("notes", <<>>)>>,
    <<Entry("notes", Rep("a", 4)), Entry("overview", <<" ", "a">>)>> }

\* the messages of the errors a model call fails with
ModelErrors == {"529 overloaded", "Connection error."}

\* the message of the error a failing write of the output layer raises
SaveError == "EACCES: permission denied"

NoInput == [path |-> "", section |-> "", content |-> <<>>, replace |-> FALSE]

TextBlock == [type |-> "text", id |-> <<0, 0>>, name |-> "", input |-> NoInput]

ToolUse(name, input) ==
  [type |-> "tool_use", id |-> <<0, 0>>, name |-> name, input |-> input]

ListDir(path) == ToolUse("list_dir", [NoInput EXCEPT !.path = path])

UpdateBlackboard(section, content, replace) ==
  ToolUse("update_blackboard",
          [NoInput EXCEPT !.section = section, !.content = content,
                          !.replace = replace])

\* paths that exist under the target directory
ExistingPaths == {"."}

\* response.usage; -1 stands for a cache field the API left out
Usage(input, output, cacheCreation, cacheRead) ==
  [input_tokens |-> input, output_tokens |-> output,
   cache_creation_input_tokens |-> cacheCreation,
   cache_read_input_tokens |-> cacheRead]

\* the responses the model may give: content blocks, stop reason and usage
Responses ==
  { [content |-> <<TextBlock>>, stop_reason |-> "end_turn",
     usage |-> Usage(1, 1, -1, -1)],
    [content |-> <<TextBlock>>, stop_reason |-> "max_tokens",
     usage |-> Usage(2, 1, 0, 0)],
    [content |-> <<TextBlock, ListDir(".")>>, stop_reason |-> "tool_use",
     usage |-> Usage(1, 2, 1, -1)],
    [content |-> <<ListDir(".")>>, stop_reason |-> "end_turn",
     usage |-> Usage(1, 1, -1, 2)],
    [content |-> <<UpdateBlackboard("overview", Half, TRUE)>>,
     stop_reason |-> "tool_use",
     usage |-> Usage(2, 2, 1, 1)],
    [content |-> <<UpdateBlackboard("overview", Rep("a", 6), FALSE)>>,
     stop_reason |-> "tool_use",
     usage |-> Usage(1, 1, 0, 1)],
    [content |-> <<UpdateBlackboard("overview", Rep("a", 4), TRUE),
                   ListDir(".")>>,
     stop_reason |-> "tool_use",
     usage |-> Usage(3, 1, -1, -1)],
    [content |-> <<ListDir("missing"),
                   UpdateBlackboard("notes",
                                    Rep("a", 4 * ((MaxTokens * 12) \div 10) + 1),
                                    TRUE)>>,
     stop_reason |-> "tool_use",
     usage |-> Usage(1, 3, 2, 0)],
    [content |-> <<ToolUse("bogus", NoInput)>>, stop_reason |-> "tool_use",
     usage |-> Usage(1, 1, -1, -1)] }

\* the API gives every tool_use block of a run its own id
WithIds(content, iteration) ==
  [k \in 1..Len(content) |->
     IF content[k].type = "tool_use"
     THEN [content[k] EXCEPT !.id = <<iteration, k>>]
     ELSE content[k]]

\* ---------------------------------------------------------------- messages
\* iter is a history tag: the iteration that produced the message (0: initial)
Message(role, kind, iter, blocks, results, pct, remaining) ==
  [role |-> role, kind |-> kind, iter |-> iter, blocks |-> blocks,
   results |-> results, pct |-> pct, remaining |-> remaining]

InitialMessage == Message("user", "initial", 0, <<>>, <<>>, 0, 0)

AssistantMessage(content, iter) ==
  Message("assistant", "response", iter, content, <<>>, 0, 0)

NudgeMessage(nudge, iter) ==
  Message("user", "nudge", iter, <<>>, <<>>, nudge.pct, nudge.remaining)

ToolResultsMessage(results, iter) ==
  Message("user", "tool_results", iter, <<>>, results, 0, 0)

IsToolUse(block) == block.type = "tool_use"

IsText(block) == block.type = "text"

\* response.content.some(block => block.type === 'tool_use')
hasToolUseOf(resp) == \E k \in 1..Len(resp.content) : IsToolUse(resp.content[k])

\* ---------------------------------------------------------------- tools
\* output texts are sequences of pieces; a piece is a literal or a number
\* rendered in decimal, and Newline is the piece "\n"
Tok(s) == [s |-> s, n |-> -1]

Num(n) == [s |-> "", n |-> n]

Newline == Tok("\n")

\* lines.join('\n')
RECURSIVE join(_)
join(lines) ==
  IF lines = <<>> THEN <<>>
  ELSE IF Len(lines) = 1 THEN lines[1]
  ELSE lines[1] \o <<Newline>> \o join(Tail(lines))

\* output.split('\n').length
splitLength(output) ==
  1 + Cardinality({i \in 1..Len(output) : output[i] = Newline})

\* the directory names of a listing, in sort order
DirNames == <<"a", "b">>

\* Array.from(byDirectory.keys()).sort()
RECURSIVE sortDirs(_)
sortDirs(dirs) ==
  IF dirs = {} THEN <<>>
  ELSE LET first == CHOOSE i \in 1..Len(DirNames) :
                      /\ DirNames[i] \in dirs
                      /\ \A j \in 1..(i - 1) : DirNames[j] \notin dirs
       IN <<DirNames[first]>> \o sortDirs(dirs \ {DirNames[first]})

\* the lines pushed for a sequence of groups (a group is a sequence of lines)
RECURSIVE pushAll(_)
pushAll(groups) ==
  IF groups = <<>> THEN <<>> ELSE groups[1] \o pushAll(Tail(groups))

\* formatFileList: the header, then per directory in sort order its line and
\* one line per file; file.dir is the part of file.path before its last '/'
\* ("" when there is none, which groups the file under basePath)
formatFileList(files, basePath) ==
  LET dirOf(file) == IF file.dir = "" THEN basePath ELSE file.dir
      header == <<Tok("Found "), Num(Len(files)), Tok(" items:"), Newline>>
      sortedDirs == sortDirs({dirOf(files[i]) : i \in 1..Len(files)})
      dirFiles(dir) == SelectSeq(files, LAMBDA file : dirOf(file) = dir)
      fileLine(file) ==
        <<Tok("  "),
          Tok(IF file.type = "directory" THEN "folder" ELSE "page"),
          Tok(" "), Tok(file.name)>>
      group(k) ==
        <<<<Newline, Tok(sortedDirs[k]), Tok("/")>>>>
          \o [i \in 1..Len(dirFiles(sortedDirs[k])) |->
                fileLine(dirFiles(sortedDirs[k])[i])]
  IN join(<<header>> \o pushAll([k \in 1..Len(sortedDirs) |-> group(k)]))

\* executeListDir: listDirectory returned files
executeListDir(files, path) ==
  [success |-> TRUE, output |-> formatFileList(files, path)]

\* the files of the results, in the order of their first result (the keys of
\* the Map byFile)
byFileKeys(results) ==
  LET first(i) == \A j \in 1..(i - 1) : results[j].file # results[i].file
      idx == SelectSeq([i \in 1..Len(results) |-> i], first)
  IN [k \in 1..Len(idx) |-> results[idx[k]].file]

\* formatGrepResults: the header, then per file its line and one line per
\* result
formatGrepResults(results, pattern) ==
  LET header == <<Tok("Found "), Num(Len(results)),
                  Tok(" matches for pattern: "), Tok(pattern), Newline>>
      files == byFileKeys(results)
      fileResults(file) == SelectSeq(results, LAMBDA r : r.file = file)
      resultLine(r) ==
        <<Tok("  Line "), Num(r.line), Tok(": "), Tok(r.content)>>
      group(k) ==
        <<<<Newline, Tok(files[k]), Tok(" ("),
            Num(Len(fileResults(files[k]))), Tok(" matches):")>>>>
          \o [i \in 1..Len(fileResults(files[k])) |->
                resultLine(fileResults(files[k])[i])]
  IN join(<<header>> \o pushAll([k \in 1..Len(files) |-> group(k)]))

\* executeGrepSearch: grepSearch returned results
executeGrepSearch(results, pattern) ==
  [success |-> TRUE,
   output |-> IF Len(results) = 0
              THEN <<Tok("No matches found for pattern: "), Tok(pattern)>>
              ELSE formatGrepResults(results, pattern)]

\* what the file-system tools give on a path that can be read: an empty
\* directory, the text of a file, no match
FoundOutput(toolName, path) ==
  IF toolName = "list_dir" THEN executeListDir(<<>>, path).output
  ELSE IF toolName = "grep_search" THEN executeGrepSearch(<<>>, "x").output
  ELSE <<Tok("File: "), Tok(path)>>

\* the switch of executeTool: the file-system tools' helpers (listDirectory,
\* readFileContent, grepSearch) return on a path they can read and throw
\* otherwise; update_blackboard delegates to updateSection; any other name is
\* the default branch.  detail holds the numbers of the output / error text.
runTool(toolName, toolInput, b, t) ==
  IF toolName \in {"list_dir", "file_read", "grep_search"}
  THEN IF toolInput.path \in ExistingPaths
       THEN [threw |-> FALSE, success |-> TRUE, kind |-> "found",
             detail |-> <<0>>, output |-> FoundOutput(toolName, toolInput.path),
             bb |-> b]
       ELSE [threw |-> TRUE, success |-> FALSE, kind |-> "not_found",
             detail |-> <<>>, output |-> <<>>, bb |-> b]
  ELSE IF toolName = "update_blackboard"
  THEN LET executeUpdateBlackboard(r) ==
             IF r.success
             THEN [threw |-> FALSE, success |-> TRUE, kind |-> "updated",
                   detail |-> <<r.newTokens, getTotalTokens(r.bb),
                                getMaxTokens(r.bb), getRemainingTokens(r.bb)>>,
                   output |-> <<Tok("Updated")>>, bb |-> r.bb]
             ELSE [threw |-> FALSE, success |-> FALSE, kind |-> "exceeds",
                   detail |-> <<r.newTotal, r.hardCap>>, output |-> <<>>,
                   bb |-> r.bb]
       IN \* r ranges over the one result of the updateSection call
          CHOOSE result \in
            { executeUpdateBlackboard(r) :
                r \in {updateSection(b, toolInput.section, toolInput.content,
                                     toolInput.replace, t)} } : TRUE
  ELSE [threw |-> FALSE, success |-> FALSE, kind |-> "unknown_tool",
        detail |-> <<>>, output |-> <<>>, bb |-> b]

\* mutant of executeTool: no catch, a helper's throw reaches the caller
executeToolNoCatch(toolName, toolInput, b, t) ==
  LET r == runTool(toolName, toolInput, b, t)
      startTime == t - 1
  IN [threw |-> r.threw, success |-> r.success, kind |-> r.kind,
      detail |-> r.detail, output |-> r.output,
      bb |-> r.bb, durationMs |-> t - startTime]

\* mutant of executeTool: every call stamps the blackboard's updatedAt
executeToolTouchesBlackboard(toolName, toolInput, b, t) ==
  LET r == runTool(toolName, toolInput, b, t)
      startTime == t - 1
  IN [threw |-> FALSE, success |-> r.success, kind |-> r.kind,
      detail |-> r.detail, output |-> r.output,
      bb |-> [r.bb EXCEPT !.updatedAt = t],
      durationMs |-> t - startTime]

\* executeTool: the switch inside try/catch, timed from startTime (the clock
\* reading before the call) to t; a caught throw becomes the failure result
\* `Tool execution failed: ...` (kind keeps the helper's message)
executeTool(toolName, toolInput, b, t) ==
  LET startTime == t - 1
      Returned(r) ==
        [threw |-> FALSE, success |-> r.success, kind |-> r.kind,
         detail |-> r.detail, output |-> r.output,
      bb |-> r.bb, durationMs |-> t - startTime]
  IN \* r ranges over the one outcome of the switch
     CHOOSE result \in
       { Returned(r) : r \in {runTool(toolName, toolInput, b, t)} } : TRUE

\* mutant of ToolResult: the result does not carry the id of its call
ToolResultNoId(toolUse, result) ==
  [type |-> "tool_result", tool_use_id |-> <<0, 0>>,
   isError |-> ~result.success, kind |-> result.kind, detail |-> result.detail]

\* mutant of ToolResult: a failure is reported like an output
ToolResultNoErrorPrefix(toolUse, result) ==
  [type |-> "tool_result", tool_use_id |-> toolUse.id,
   isError |-> FALSE, kind |-> result.kind, detail |-> result.detail]

\* one entry of the tool-result message; isError: the content is
\* `Error: ${result.error}` instead of result.output
ToolResult(toolUse, result) ==
  [type |-> "tool_result", tool_use_id |-> toolUse.id,
   isError |-> ~result.success, kind |-> result.kind, detail |-> result.detail]

\* mutant of ToolCallRecord: the record does not carry the iteration
ToolCallRecordNoIteration(toolUse, result, iteration, t) ==
  [timestamp |-> t, iteration |-> 0, name |-> toolUse.name,
   input |-> toolUse.input, success |-> result.success, kind |-> result.kind,
   durationMs |-> result.durationMs]

\* recordToolCall's argument: the record pushed to toolCallHistory
ToolCallRecord(toolUse, result, iteration, t) ==
  [timestamp |-> t, iteration |-> iteration, name |-> toolUse.name,
   input |-> toolUse.input, success |-> result.success, kind |-> result.kind,
   durationMs |-> result.durationMs]

\* no count part
NoCount == [n |-> -1, unit |-> ""]

\* formatListDir's count: `${output.split('\n').length} items` or 'failed'
formatListDir(input, result) ==
  IF result.success
  THEN [n |-> splitLength(result.output), unit |-> "items"]
  ELSE [n |-> -1, unit |-> "failed"]

\* formatGrepSearch's count: `${output.split('\n').length} matches` or
\* 'failed'
formatGrepSearch(input, result) ==
  IF result.success
  THEN [n |-> splitLength(result.output), unit |-> "matches"]
  ELSE [n |-> -1, unit |-> "failed"]

\* formatCompactToolCall: the mark, the tool, its argument as shown and the
\* count part (a number of "items" / "matches", "failed", or nothing)
formatCompactToolCall(name, input, result) ==
  [mark |-> result.success, name |-> name,
   arg |-> IF name \in {"list_dir", "file_read", "grep_search"} THEN input.path
           ELSE IF name = "update_blackboard" THEN input.section
           ELSE "...",
   count |-> IF name = "list_dir" THEN formatListDir(input, result)
             ELSE IF name = "grep_search" THEN formatGrepSearch(input, result)
             ELSE NoCount]

\* compactToolHistory.slice(-15)
RecentCalls == 15

\* the first occurrences of the paths of the records of one tool, in order
\* (Array.from of the Set filled by collectDirsAndFiles)
PathsOf(history, toolName) ==
  LET first(i) ==
        /\ history[i].name = toolName
        /\ \A j \in 1..(i - 1) :
             ~(history[j].name = toolName
               /\ history[j].input.path = history[i].input.path)
      idx == SelectSeq([i \in 1..Len(history) |-> i], first)
  IN [k \in 1..Len(idx) |-> history[idx[k]].input.path]

NoToolHistory ==
  [totalCalls |-> 0, dirs |-> <<>>, files |-> <<>>, skipped |-> 0,
   recent |-> <<>>]

\* buildToolHistory: '' without calls, else the progress summary and the
\* last 15 compact lines
buildToolHistory(history, compact) ==
  IF Len(compact) = 0 THEN NoToolHistory
  ELSE LET skipped == IF Len(compact) > RecentCalls
                      THEN Len(compact) - RecentCalls ELSE 0
       IN [totalCalls |-> Len(compact),
           dirs |-> PathsOf(history, "list_dir"),
           files |-> PathsOf(history, "file_read"),
           skipped |-> skipped,
           recent |-> SubSeq(compact, skipped + 1, Len(compact))]

\* ---------------------------------------------------------------- agent loop
\* utilization >= 0.65 threshold, in percent
GateUtilizationPct == 65

\* completionNudges >= 3
NudgeLimit == 3

\* Math.round(utilization * 100)
RoundPct(total, max) == (200 * total + max) \div (2 * max)

NoNudge == [nudge |-> FALSE, pct |-> 0, remaining |-> 0]

\* mutant of checkCompletionNudge: the gate ignores the utilization
checkCompletionNudgeNoUtil(b, nudges, resp, hasToolUse) ==
  IF hasToolUse /\ resp.stop_reason # "end_turn" THEN NoNudge
  ELSE IF nudges >= NudgeLimit THEN NoNudge
  ELSE [nudge |-> TRUE, pct |-> RoundPct(getTotalTokens(b), getMaxTokens(b)),
        remaining |-> getRemainingTokens(b)]

\* mutant of checkCompletionNudge: the number of nudges is not limited
checkCompletionNudgeNoLimit(b, nudges, resp, hasToolUse) ==
  IF hasToolUse /\ resp.stop_reason # "end_turn" THEN NoNudge
  ELSE IF getTotalTokens(b) * 100 >= GateUtilizationPct * getMaxTokens(b)
       THEN NoNudge
       ELSE [nudge |-> TRUE,
             pct |-> RoundPct(getTotalTokens(b), getMaxTokens(b)),
             remaining |-> getRemainingTokens(b)]

\* checkCompletionNudge: the nudge text (its two numbers) or null
checkCompletionNudge(b, nudges, resp, hasToolUse) ==
  IF hasToolUse /\ resp.stop_reason # "end_turn" THEN NoNudge
  ELSE IF \/ getTotalTokens(b) * 100 >= GateUtilizationPct * getMaxTokens(b)
          \/ nudges >= NudgeLimit
       THEN NoNudge
       ELSE [nudge |-> TRUE,
             pct |-> RoundPct(getTotalTokens(b), getMaxTokens(b)),
             remaining |-> getRemainingTokens(b)]

\* mutant of recordMessagesWindow: the window is the whole archive
recordMessagesWholeArchive(archive, assistant, user) ==
  archive \o <<assistant, user>>

\* recordMessages: the array it returns (the next rolling window)
recordMessagesWindow(archive, assistant, user) == <<assistant, user>>

\* recordMessages: state.messages after the two pushes
recordMessagesArchive(archive, assistant, user) ==
  archive \o <<assistant, user>>

\* mutant of loopContinues: the loop gives up one iteration before the cap
loopContinuesStopsEarly(isRunning, iterations, maxIterations) ==
  isRunning /\ iterations < maxIterations - 1

\* mutant of loopContinues: the cap is tested with <= instead of <
loopContinuesOffByOne(isRunning, iterations, maxIterations) ==
  isRunning /\ iterations <= maxIterations

\* runAgentLoop: while (running && state.stats.iterations < state.maxIterations)
loopContinues(isRunning, iterations, maxIterations) ==
  isRunning /\ iterations < maxIterations

\* mutant of nextIterationsSinceWrite: updated per call instead of per response
nextIterationsSinceWritePerCall(count, wrote, calls) ==
  IF wrote THEN 0 ELSE count + calls

\* handleToolUse: wroteToBlackboard ? 0 : iterationsSinceBlackboardWrite + 1
nextIterationsSinceWrite(count, wrote, calls) ==
  IF wrote THEN 0 ELSE count + 1

\* the profile's documented threshold: profile.stallWarningThreshold ?? 3
stallWarningThreshold == 3

\* buildStallWarning: if (iterationsSinceWrite < 2) return ''
StallWarningFrom == 2

\* buildStallWarning: '' or the WARNING text with the count in it
buildStallWarning(iterationsSinceWrite) ==
  IF iterationsSinceWrite < StallWarningFrom
  THEN [severity |-> "none", iterations |-> 0]
  ELSE [severity |-> "warning", iterations |-> iterationsSinceWrite]

\* String.prototype.toUpperCase on the section names in use
toUpperCase(name) ==
  CASE name = "overview" -> "OVERVIEW" [] name = "notes" -> "NOTES"
    [] OTHER -> name

\* Blackboard.getAllSectionsForContext: a `## NAME` heading and the content
\* of every section with content, in Map order
getAllSectionsForContext(b) ==
  LET filled == SelectSeq(b.sections, LAMBDA sec : sec.content # <<>>) IN
  [i \in 1..Len(filled) |->
     [heading |-> toUpperCase(filled[i].name), content |-> filled[i].content]]

\* mutant of generateSystemPrompt: the blackboard dump is left out
generateSystemPromptNoDump(b, toolHistorySummary, iterationsSinceWrite) ==
  [stallWarning |-> buildStallWarning(iterationsSinceWrite),
   toolHistorySummary |-> toolHistorySummary,
   maxTokens |-> getMaxTokens(b), tokens |-> getTotalTokens(b),
   remaining |-> getRemainingTokens(b),
   existing |-> <<>>]

\* generateSystemPrompt: the parts of the prompt that depend on the run
generateSystemPrompt(b, toolHistorySummary, iterationsSinceWrite) ==
  [stallWarning |-> buildStallWarning(iterationsSinceWrite),
   toolHistorySummary |-> toolHistorySummary,
   maxTokens |-> getMaxTokens(b), tokens |-> getTotalTokens(b),
   remaining |-> getRemainingTokens(b),
   existing |-> IF getTotalTokens(b) > 0
                THEN getAllSectionsForContext(b) ELSE <<>>]

NoPrompt ==
  generateSystemPrompt(NewBlackboard("target", MaxTokens, 0), NoToolHistory, 0)

\* mutant of updateTokenStats: the figures are those of the last response
updateTokenStatsOverwrites(totalTokens, usage) ==
  [input |-> usage.input_tokens, output |-> usage.output_tokens,
   total |-> usage.input_tokens + usage.output_tokens,
   cacheCreation |-> IF usage.cache_creation_input_tokens \notin {-1, 0}
                     THEN usage.cache_creation_input_tokens ELSE 0,
   cacheRead |-> IF usage.cache_read_input_tokens \notin {-1, 0}
                 THEN usage.cache_read_input_tokens ELSE 0]

\* updateTokenStats: stats.totalTokens after a response; a cache figure is
\* added only when it is truthy (-1 stands for an absent field)
updateTokenStats(totalTokens, usage) ==
  [input |-> totalTokens.input + usage.input_tokens,
   output |-> totalTokens.output + usage.output_tokens,
   total |-> (totalTokens.input + usage.input_tokens)
             + (totalTokens.output + usage.output_tokens),
   cacheCreation |-> IF usage.cache_creation_input_tokens \notin {-1, 0}
                     THEN totalTokens.cacheCreation
                          + usage.cache_creation_input_tokens
                     ELSE totalTokens.cacheCreation,
   cacheRead |-> IF usage.cache_read_input_tokens \notin {-1, 0}
                 THEN totalTokens.cacheRead + usage.cache_read_input_tokens
                 ELSE totalTokens.cacheRead]

\* Blackboard.formatSectionName on the section names in use: the words
\* between underscores, capitalised and joined by spaces
formatSectionName(name) ==
  CASE name = "overview" -> "Overview" [] name = "notes" -> "Notes"
    [] OTHER -> name

\* Date.prototype.toLocaleString: the instant as local text, to the second
toLocaleString(t) == [local |-> t]

\* Blackboard.toMarkdown: the header figures and, for every section with
\* content in Map order, heading, content, token count and time
toMarkdown(b) ==
  LET filled == SelectSeq(b.sections, LAMBDA sec : sec.content # <<>>) IN
  [target |-> b.targetPath, tokens |-> getTotalTokens(b),
   maxTokens |-> b.maxTokens,
   pct |-> RoundPct(getTotalTokens(b), b.maxTokens),
   updatedAt |-> toISOString(b.updatedAt),
   sections |->
     [i \in 1..Len(filled) |->
        [heading |-> formatSectionName(filled[i].name),
         content |-> filled[i].content, tokens |-> filled[i].tokens,
         updatedAt |-> toLocaleString(filled[i].updatedAt)]]]

\* the Markdown part of a summary that has none
NoMarkdown ==
  [target |-> "", tokens |-> 0, maxTokens |-> 0, pct |-> 0,
   updatedAt |-> toISOString(0), sections |-> <<>>]

\* the outcomes of generateSummary's model call: the joined text blocks of
\* the response (none: ''), or the error it throws
SummaryCalls ==
  { [threw |-> FALSE, text |-> "summary"],
    [threw |-> FALSE, text |-> ""],
    [threw |-> TRUE, text |-> "529 overloaded"] }

\* the summary of a save that generates none
NoSummary == [failed |-> FALSE, text |-> "", markdown |-> NoMarkdown]

\* mutant of generateSummarySafe: the placeholder comes without the Markdown
generateSummarySafeWithoutMarkdown(call, b) ==
  IF call.threw
  THEN [failed |-> TRUE, text |-> call.text, markdown |-> NoMarkdown]
  ELSE [failed |-> FALSE, text |-> call.text, markdown |-> NoMarkdown]

\* generateSummarySafe: the generated text, or on a throw the placeholder
\* `# Analysis Summary ... _Summary generation failed: ${msg}_` followed by
\* blackboard.toMarkdown()
generateSummarySafe(call, b) ==
  IF call.threw
  THEN [failed |-> TRUE, text |-> call.text, markdown |-> toMarkdown(b)]
  ELSE [failed |-> FALSE, text |-> call.text, markdown |-> NoMarkdown]

\* mutant of saveArtifacts: the summary is generated on the error path too
saveArtifactsAlwaysSummary(previous, error, conversation, persisted, call, b) ==
  [attempts |-> previous.attempts + 1, written |-> persisted,
   conversation |-> conversation, success |-> error = "", error |-> error,
   summary |-> TRUE,
   savedSummary |-> generateSummarySafe(call, b) # NoSummary,
   summaryFile |-> generateSummarySafe(call, b)]

\* saveArtifacts(error?): what is handed to the output layer; summary tells
\* whether generateSummarySafe was called (error ? null : ...), savedSummary
\* whether saveSummary is (`if (summary)`: a non-empty string), summaryFile
\* what it is given, written whether every save of the output layer went
\* through; "" is no error
saveArtifacts(previous, error, conversation, persisted, call, b) ==
  LET summary == IF error # "" THEN NoSummary ELSE generateSummarySafe(call, b)
  IN [attempts |-> previous.attempts + 1, written |-> persisted,
      conversation |-> conversation, success |-> error = "", error |-> error,
      summary |-> error = "",
      savedSummary |-> summary # NoSummary,
      summaryFile |-> summary]

\* mutant of emitAfterSave: saveArtifacts() is called inside analyze()'s try
\* block, so its rejection passes through handleAnalysisError
emitAfterSaveInsideTry(emitted, persisted) ==
  IF persisted THEN emitted ELSE Append(emitted, "error")

\* the events after analyze() called saveArtifacts() of a finished run: the
\* call follows the try block, its rejection leaves analyze() directly
emitAfterSave(emitted, persisted) == emitted

\* mutant of handleAnalysisError: a failed save replaces the run's error
handleAnalysisErrorSurfacesSaveError(error, persisted) ==
  IF persisted THEN error ELSE SaveError

\* handleAnalysisError: the error it throws; a rejection of
\* saveArtifacts(errorMsg) is caught and logged
handleAnalysisError(error, persisted) == error

NoResponse ==
  [content |-> <<>>, stop_reason |-> "", usage |-> Usage(0, 0, -1, -1)]

NoArtifacts ==
  [attempts |-> 0, written |-> FALSE, conversation |-> <<>>,
   success |-> FALSE, error |-> "", summary |-> FALSE,
   savedSummary |-> FALSE, summaryFile |-> NoSummary]

NoSeed == [called |-> FALSE, sections |-> <<>>, threw |-> FALSE,
           failures |-> <<>>, returned |-> <<>>]

NoCall ==
  [op |-> "none", sectionName |-> "", content |-> <<>>, replace |-> FALSE,
   success |-> FALSE, newTokens |-> 0, newTotal |-> 0, hardCap |-> 0]

\* createEmptyStats; endTime is -1 while undefined
createEmptyStats ==
  [totalTokens |-> [input |-> 0, output |-> 0, total |-> 0,
                    cacheCreation |-> 0, cacheRead |-> 0],
   iterations |-> 0, toolCalls |-> 0, endTime |-> -1]

\* state after `new BlackboardAgent(config)` with a fresh Blackboard
Constructed ==
  /\ now = 0
  /\ bb = NewBlackboard("target", MaxTokens, 0)
  /\ lastCall = NoCall
  /\ pc = "idle"
  /\ running = FALSE
  /\ stats = createEmptyStats
  /\ messages = <<>>
  /\ agentMessages = <<>>
  /\ workingMessages = <<>>
  /\ response = NoResponse
  /\ pending = <<>>
  /\ toolResults = <<>>
  /\ wroteToBlackboard = FALSE
  /\ iterationsSinceBlackboardWrite = 0
  /\ completionNudges = 0
  /\ toolCallHistory = <<>>
  /\ events = <<>>
  /\ artifacts = NoArtifacts
  /\ wroteLog = <<>>
  /\ systemPrompt = NoPrompt
  /\ raised = ""
  /\ prevCall = NoCall
  /\ seeded = NoSeed
  /\ compactToolHistory = <<>>
  /\ usageLog = <<>>

\* the blackboard of a search that found none
NoSession == [NewBlackboard("", 0, 0) EXCEPT !.id = <<"bb", 0>>]

\* estimateTokens has no caller of its own
NoTokenCall ==
  /\ tokenTexts = <<>>
  /\ tokenEstimates = <<>>

\* the sessions directory is empty and has not been searched
NoSessionCall ==
  /\ sessionFiles = <<>>
  /\ sessionQuery = [called |-> FALSE, targetPath |-> "", threw |-> FALSE,
                     found |-> FALSE, session |-> NoSession]

\* a file of the searched tree: kind "text" (a readable text file),
\* "unreadable" (readFile rejects) or "skipped" (an ignored entry or a name
\* isTextFile refuses); lines tells for every line whether the regex matches
GrepFile(kind, lines) ==
  [type |-> "file", kind |-> kind, lines |-> lines, entries |-> <<>>]

GrepDirectory(entries) ==
  [type |-> "directory", kind |-> "", lines |-> <<>>, entries |-> entries]

\* a fresh GrepContext, with the log of the files read and the lines matched
NewGrepContext == [results |-> <<>>, reads |-> <<>>, tested |-> <<>>]

\* grepSearch has not been called
NoGrepCall ==
  /\ grepTarget = GrepDirectory(<<>>)
  /\ grepCall = [called |-> FALSE, maxResults |-> 0, ctx |-> NewGrepContext]

\* no tool call has been formatted outside a run
NoHistoryCall ==
  /\ historyCall = [name |-> "", path |-> "", success |-> FALSE,
                    files |-> <<>>, results |-> <<>>]
  /\ historyLine = <<>>

\* no utility function has been called
Init ==
  /\ Constructed
  /\ NoTokenCall
  /\ NoSessionCall
  /\ NoGrepCall
  /\ NoHistoryCall

\* ---------------------------------------------------------------- SpecBB
\* a caller invokes bb.updateSection(sectionName, content, replace)
BBUpdateSection ==
  /\ now < MaxOps
  /\ \E sectionName \in SectionNames, content \in Contents, replace \in BOOLEAN :
       LET r == updateSection(bb, sectionName, content, replace, now + 1) IN
       /\ bb' = r.bb
       /\ lastCall' = [op |-> "updateSection", sectionName |-> sectionName,
                       content |-> content, replace |-> replace,
                       success |-> r.success, newTokens |-> r.newTokens,
                       newTotal |-> r.newTotal, hardCap |-> r.hardCap]
  /\ prevCall' = lastCall
  /\ now' = now + 1
  /\ UNCHANGED <<seeded, agentVars>>

\* a caller invokes bb.removeSection(sectionName)
BBRemoveSection ==
  /\ now < MaxOps
  /\ \E sectionName \in SectionNames :
       LET r == removeSection(bb, sectionName, now + 1) IN
       /\ bb' = r.bb
       /\ lastCall' = [NoCall EXCEPT !.op = "removeSection",
                                     !.sectionName = sectionName,
                                     !.success = r.deleted]
  /\ prevCall' = lastCall
  /\ now' = now + 1
  /\ UNCHANGED <<seeded, agentVars>>

\* a caller invokes Blackboard.seed(targetPath, sections, maxTokens) and, when
\* it returns, goes on with the blackboard it got
BBSeed ==
  /\ now < MaxOps
  /\ \E sections \in SeedMaps :
       LET r == seed("target", sections, MaxTokens, now + 1) IN
       /\ seeded' = [called |-> TRUE, sections |-> sections,
                     threw |-> r.threw, failures |-> r.failures,
                     returned |-> r.returned]
       /\ bb' = IF r.threw THEN bb ELSE r.returned[1]
       /\ lastCall' = [NoCall EXCEPT !.op = "seed", !.success = ~r.threw]
  /\ prevCall' = lastCall
  /\ now' = now + 1
  /\ UNCHANGED agentVars

NextBB == BBUpdateSection \/ BBRemoveSection \/ BBSeed

SpecBB == Init /\ [][NextBB]_vars

\* ---------------------------------------------------------------- Spec
\* the run is configured as the CLI does: workspaceRoot given, saveOutput on,
\* so an OutputManager exists and creating the output folder succeeds;
\* stats.endTime is -1 while undefined; pc = "rejected": analyze() rejected
\* before run() was called; pc = "failed": analyze() rejected
\* with a model call's error; pc = "done": analyze() settled after the loop
\* ended (raised tells whether the final save made it reject)

callVars == <<lastCall, prevCall, seeded, utilVars>>

Last(s) == s[Len(s)]

\* analyze() up to the first model call of the loop: createOutputFolder()
\* runs before the try block, so when it rejects analyze() rejects at once
\* (pc = "rejected"); otherwise run() emits 'start' and runAgentLoop sets
\* state.messages and the rolling window
Analyze ==
  /\ pc = "idle"
  /\ \E created \in BOOLEAN :
       IF created
       THEN /\ events' = Append(events, "start")
            /\ messages' = <<InitialMessage>>
            /\ workingMessages' = <<InitialMessage>>
            /\ running' = TRUE
            /\ pc' = "loop"
            /\ UNCHANGED raised
       ELSE /\ raised' = SaveError
            /\ pc' = "rejected"
            /\ UNCHANGED <<events, messages, workingMessages, running>>
  /\ UNCHANGED <<now, bb, callVars, stats, agentMessages, response, pending,
                 toolResults, wroteToBlackboard,
                 iterationsSinceBlackboardWrite, completionNudges,
                 toolCallHistory, artifacts, wroteLog, systemPrompt,
                 compactToolHistory, usageLog>>

\* runSingleIteration up to `await state.anthropic.messages.create(...)`
\* with system: systemPrompt and messages: workingMessages
CallClaude ==
  /\ pc = "loop"
  /\ loopContinues(running, stats.iterations, MaxIterations)
  /\ stats' = [stats EXCEPT !.iterations = @ + 1]
  /\ events' = Append(events, "iteration")
  /\ systemPrompt' =
       generateSystemPrompt(bb,
                            buildToolHistory(toolCallHistory, compactToolHistory),
                            iterationsSinceBlackboardWrite)
  /\ pc' = "model-call"
  /\ UNCHANGED <<now, bb, callVars, running, messages, agentMessages,
                 workingMessages, response, pending, toolResults,
                 wroteToBlackboard, iterationsSinceBlackboardWrite,
                 completionNudges, toolCallHistory, artifacts, wroteLog,
                 raised, compactToolHistory, usageLog>>

\* the model call returns resp: callClaude updates the token stats, then the
\* rest of runSingleIteration, up to the first executeTool when tools are
\* dispatched
ClaudeReturns ==
  /\ pc = "model-call"
  /\ \E r \in Responses :
       LET resp       == [r EXCEPT !.content = WithIds(r.content, stats.iterations)]
           thinking   == IF \E k \in 1..Len(resp.content) : IsText(resp.content[k])
                         THEN <<"thinking">> ELSE <<>>
           hasToolUse == hasToolUseOf(resp)
           nudge      == checkCompletionNudge(bb, completionNudges, resp, hasToolUse)
           assistant  == AssistantMessage(resp.content, stats.iterations)
           user       == NudgeMessage(nudge, stats.iterations)
       IN
       /\ response' = resp
       /\ stats' = [stats EXCEPT
                      !.totalTokens = updateTokenStats(@, r.usage)]
       /\ usageLog' = Append(usageLog, r.usage)
       /\ events' = events \o thinking
       /\ IF nudge.nudge
          THEN \* checkCompletionNudge returned a text: recordMessages
               /\ completionNudges' = completionNudges + 1
               /\ messages' = recordMessagesArchive(messages, assistant, user)
               /\ workingMessages' = recordMessagesWindow(messages, assistant, user)
               /\ wroteLog' = Append(wroteLog, FALSE)
               /\ pc' = "loop"
               /\ UNCHANGED <<running, pending, toolResults, wroteToBlackboard>>
          ELSE IF ~hasToolUse \/ resp.stop_reason = "end_turn"
          THEN \* return null: running = false, the window is kept
               /\ running' = FALSE
               /\ wroteLog' = Append(wroteLog, FALSE)
               /\ pc' = "loop"
               /\ UNCHANGED <<completionNudges, messages, workingMessages,
                              pending, toolResults, wroteToBlackboard>>
          ELSE \* handleToolUse: processToolCalls starts
               /\ pending' = SelectSeq(resp.content, IsToolUse)
               /\ toolResults' = <<>>
               /\ wroteToBlackboard' = FALSE
               /\ pc' = "tool-dispatch"
               /\ UNCHANGED <<completionNudges, messages, workingMessages,
                              running, wroteLog>>
  /\ UNCHANGED <<now, bb, callVars, agentMessages,
                 iterationsSinceBlackboardWrite, toolCallHistory, artifacts,
                 systemPrompt, raised, compactToolHistory>>

\* one turn of processToolCalls' for loop; after the last call handleToolUse
\* updates the stall counter and records the exchange
DispatchTool ==
  /\ pc = "tool-dispatch"
  /\ pending # <<>>
  /\ \E toolUse \in {Head(pending)} :
     \E result \in {executeTool(toolUse.name, toolUse.input, bb, now + 1)} :
     ~result.threw /\
     LET wrote   == wroteToBlackboard
                    \/ (toolUse.name = "update_blackboard" /\ result.success)
         results == Append(toolResults, ToolResult(toolUse, result))
         assistant == AssistantMessage(response.content, stats.iterations)
         user      == ToolResultsMessage(results, stats.iterations)
     IN
     /\ now' = now + 1
     /\ stats' = [stats EXCEPT !.toolCalls = @ + 1]
     /\ bb' = result.bb
     /\ toolCallHistory' =
          Append(toolCallHistory,
                 ToolCallRecord(toolUse, result, stats.iterations, now + 1))
     /\ compactToolHistory' =
          Append(compactToolHistory,
                 formatCompactToolCall(toolUse.name, toolUse.input, result))
     /\ events' = events \o <<"tool_call">>
                    \o (IF toolUse.name = "update_blackboard" /\ result.success
                        THEN <<"blackboard_update">> ELSE <<>>)
                    \o <<"tool_result">>
     /\ wroteToBlackboard' = wrote
     /\ toolResults' = results
     /\ pending' = Tail(pending)
     /\ IF Tail(pending) = <<>>
        THEN /\ iterationsSinceBlackboardWrite' =
                  nextIterationsSinceWrite(iterationsSinceBlackboardWrite,
                                           wrote, Len(results))
             /\ messages' = recordMessagesArchive(messages, assistant, user)
             /\ workingMessages' = recordMessagesWindow(messages, assistant, user)
             /\ wroteLog' = Append(wroteLog, wrote)
             /\ pc' = "loop"
        ELSE UNCHANGED <<iterationsSinceBlackboardWrite, messages,
                         workingMessages, wroteLog, pc>>
  /\ UNCHANGED <<callVars, running, agentMessages, response, completionNudges,
                 artifacts, systemPrompt, raised, usageLog>>

\* the model call throws error: it leaves runAgentLoop and run(); analyze()
\* catches it: handleAnalysisError fixes stats.endTime, calls
\* saveArtifacts(errorMsg) (the output layer's saves go through or one of
\* them fails), emits 'error' and throws
ClaudeThrows ==
  /\ pc = "model-call"
  /\ \E error \in ModelErrors, persisted \in BOOLEAN :
       /\ artifacts' = saveArtifacts(artifacts, error, agentMessages, persisted,
                                     [threw |-> FALSE, text |-> ""], bb)
       /\ raised' = handleAnalysisError(error, persisted)
  /\ stats' = [stats EXCEPT !.endTime = IF @ = -1 THEN now + 1 ELSE @]
  /\ now' = now + 1
  /\ events' = Append(events, "error")
  /\ pc' = "failed"
  /\ UNCHANGED <<bb, callVars, running, messages, agentMessages,
                 workingMessages, response, pending, toolResults,
                 wroteToBlackboard, iterationsSinceBlackboardWrite,
                 completionNudges, toolCallHistory, wroteLog, systemPrompt,
                 compactToolHistory, usageLog>>

\* the while loop ends: run() finalizes the stats and emits 'complete';
\* analyze() goes on to saveArtifacts()
LoopExit ==
  /\ pc = "loop"
  /\ ~loopContinues(running, stats.iterations, MaxIterations)
  /\ stats' = [stats EXCEPT !.endTime = now + 1]
  /\ now' = now + 1
  /\ events' = Append(events, "complete")
  /\ pc' = "saving"
  /\ UNCHANGED <<bb, callVars, running, messages, agentMessages,
                 workingMessages, response, pending, toolResults,
                 wroteToBlackboard, iterationsSinceBlackboardWrite,
                 completionNudges, toolCallHistory, artifacts, wroteLog,
                 systemPrompt, raised, compactToolHistory, usageLog>>

\* saveArtifacts() of a finished run: the summary call returns or throws, then
\* saveConversation(this.messages, ...) and the other artifacts are written;
\* a failing save rejects analyze()
SaveArtifacts ==
  /\ pc = "saving"
  /\ \E persisted \in BOOLEAN, call \in SummaryCalls :
       /\ artifacts' = saveArtifacts(artifacts, "", agentMessages, persisted,
                                     call, bb)
       /\ raised' = IF persisted THEN "" ELSE SaveError
       /\ events' = emitAfterSave(events, persisted)
  /\ pc' = "done"
  /\ UNCHANGED <<now, bb, callVars, running, stats, messages, agentMessages,
                 workingMessages, response, pending, toolResults,
                 wroteToBlackboard, iterationsSinceBlackboardWrite,
                 completionNudges, toolCallHistory, wroteLog,
                 systemPrompt, compactToolHistory, usageLog>>

Next ==
  \/ Analyze
  \/ CallClaude
  \/ ClaudeReturns
  \/ ClaudeThrows
  \/ DispatchTool
  \/ LoopExit
  \/ SaveArtifacts

Spec == Init /\ [][Next]_vars

\* every step of the single thread of control is eventually taken
FairSpec == Spec /\ WF_vars(Next)

\* ---------------------------------------------------------------- SpecTokens
\* estimateTokens on its own: two texts are drawn, then estimated

\* the characters of the texts: a letter and the two whitespace characters
Chars == {"a", " ", "\n"}

Texts == UNION { [1..n -> Chars] : n \in 0..MaxLen }

InitTokens ==
  /\ Constructed
  /\ tokenTexts \in Texts \X Texts
  /\ tokenEstimates = <<>>
  /\ NoSessionCall
  /\ NoGrepCall
  /\ NoHistoryCall

\* a caller estimates both texts
EstimateTokens ==
  /\ tokenEstimates = <<>>
  /\ tokenEstimates' = <<estimateTokens(tokenTexts[1]),
                         estimateTokens(tokenTexts[2])>>
  /\ UNCHANGED <<tokenTexts, runVars, sessionVars, grepVars, historyVars>>

NextTokens == EstimateTokens

SpecTokens == InitTokens /\ [][NextTokens]_vars

\* ---------------------------------------------------------------- SpecSession
\* SessionManager.findSessionByPath over a sessions directory: the files are
\* drawn, then the directory is searched for a target path.  A file is
\* named after its place in the directory; its kind tells what reading it
\* gives: "session" the JSON saveSession wrote, "unreadable" a rejected
\* readFile, "truncated" text JSON.parse throws on, "not_a_session" valid
\* JSON without sections (`{}`), "other" a name that does not end in .json

TargetPaths == {"target", "other"}

FileKinds == {"session", "unreadable", "truncated", "not_a_session", "other"}

\* what a file may hold; targetPath and updatedAt matter for sessions only
FileContents ==
  { [kind |-> "session", targetPath |-> p, updatedAt |-> t] :
      p \in TargetPaths, t \in 1..2 }
  \cup { [kind |-> k, targetPath |-> "", updatedAt |-> 0] :
           k \in FileKinds \ {"session"} }

\* saveSession: JSON.stringify(blackboard.toJSON()) of the session stored
\* in the i-th file
StoredSession(i, file) ==
  toJSON([NewBlackboard(file.targetPath, MaxTokens, file.updatedAt)
            EXCEPT !.id = <<"bb", i>>])

\* loadSession(id of the i-th file) at clock reading t: null for a missing,
\* unreadable or unparsable file; fromJSON throws on data without sections
\* (Object.entries(undefined))
loadSession(files, i, t) ==
  IF files[i].kind \in {"unreadable", "truncated"}
  THEN [threw |-> FALSE, found |-> FALSE, session |-> NoSession]
  ELSE IF files[i].kind = "not_a_session"
  THEN [threw |-> TRUE, found |-> FALSE, session |-> NoSession]
  ELSE [threw |-> FALSE, found |-> TRUE,
        session |-> fromJSON(StoredSession(i, files[i]), t)]

\* getJsonSessionIds: the places of the files whose name ends in .json
getJsonSessionIds(files) ==
  SelectSeq([i \in 1..Len(files) |-> i], LAMBDA i : files[i].kind # "other")

\* matching.reduce((latest, s) => s.getUpdatedAt() > latest.getUpdatedAt()
\* ? s : latest) from the k-th element on
RECURSIVE Reduce(_, _, _)
Reduce(matching, k, latest) ==
  IF k > Len(matching) THEN latest
  ELSE Reduce(matching, k + 1,
              IF matching[k].updatedAt > latest.updatedAt
              THEN matching[k] ELSE latest)

\* findSessionByPath: Promise.all over loadSession rejects when one load
\* throws; else null or the latest of the sessions of the target path
findSessionByPath(files, targetPath, t) ==
  LET sessionIds == getJsonSessionIds(files)
      sessions == [n \in 1..Len(sessionIds) |->
                     loadSession(files, sessionIds[n], t)]
      loaded   == SelectSeq(sessions, LAMBDA s : s.found)
      matching == SelectSeq([n \in 1..Len(loaded) |-> loaded[n].session],
                            LAMBDA s : s.targetPath = targetPath)
  IN IF \E n \in 1..Len(sessions) : sessions[n].threw
     THEN [threw |-> TRUE, found |-> FALSE, session |-> NoSession]
     ELSE IF Len(matching) = 0
     THEN [threw |-> FALSE, found |-> FALSE, session |-> NoSession]
     ELSE [threw |-> FALSE, found |-> TRUE,
           session |-> Reduce(matching, 2, matching[1])]

InitSession ==
  /\ Constructed
  /\ NoTokenCall
  /\ sessionFiles \in UNION { [1..n -> FileContents] : n \in 0..MaxSessions }
  /\ sessionQuery = [called |-> FALSE, targetPath |-> "", threw |-> FALSE,
                     found |-> FALSE, session |-> NoSession]
  /\ NoGrepCall
  /\ NoHistoryCall

\* a caller searches the directory for targetPath
FindSessionByPath ==
  /\ ~sessionQuery.called
  /\ \E targetPath \in TargetPaths :
       LET r == findSessionByPath(sessionFiles, targetPath, now) IN
       sessionQuery' = [called |-> TRUE, targetPath |-> targetPath,
                        threw |-> r.threw, found |-> r.found,
                        session |-> r.session]
  /\ UNCHANGED <<sessionFiles, runVars, tokenVars, grepVars, historyVars>>

NextSession == FindSessionByPath

SpecSession == InitSession /\ [][NextSession]_vars

\* ---------------------------------------------------------------- SpecGrep
\* grepSearch(pattern, targetPath, maxResults) over a drawn file or tree;
\* a path is the sequence of entry numbers from targetPath down

\* mutant of collectLineMatch: the number of results is not tested
collectLineMatchNoLimit(line, lineNum, filePath, ctx, maxResults) ==
  [ctx EXCEPT
     !.tested = Append(@, [file |-> filePath, line |-> lineNum]),
     !.results = IF line
                 THEN Append(@, [file |-> filePath, line |-> lineNum])
                 ELSE @]

\* collectLineMatch
collectLineMatch(line, lineNum, filePath, ctx, maxResults) ==
  IF Len(ctx.results) >= maxResults THEN ctx
  ELSE [ctx EXCEPT
          !.tested = Append(@, [file |-> filePath, line |-> lineNum]),
          !.results = IF line
                      THEN Append(@, [file |-> filePath, line |-> lineNum])
                      ELSE @]

\* content.split('\n').forEach(collectLineMatch) from line i on
RECURSIVE forEachLine(_, _, _, _, _)
forEachLine(lines, i, filePath, ctx, maxResults) ==
  IF i > Len(lines) THEN ctx
  ELSE forEachLine(lines, i + 1, filePath,
                   collectLineMatch(lines[i], i, filePath, ctx, maxResults),
                   maxResults)

\* searchFileForPattern
searchFileForPattern(file, filePath, ctx, maxResults) ==
  IF Len(ctx.results) >= maxResults THEN ctx
  ELSE IF file.kind = "unreadable"
  THEN [ctx EXCEPT !.reads = Append(@, filePath)]
  ELSE forEachLine(file.lines, 1, filePath,
                   [ctx EXCEPT !.reads = Append(@, filePath)], maxResults)

RECURSIVE walkDirectoryForGrep(_, _, _, _)

\* processGrepEntry: an ignored entry or a file that is no text file is
\* skipped, a directory is walked, a text file is searched
processGrepEntry(entry, fullPath, ctx, maxResults) ==
  IF entry.type = "directory"
  THEN walkDirectoryForGrep(entry, fullPath, ctx, maxResults)
  ELSE IF entry.kind = "skipped" THEN ctx
  ELSE searchFileForPattern(entry, fullPath, ctx, maxResults)

\* walkDirectoryForGrep's loop over the entries from entry i on
RECURSIVE forEachEntry(_, _, _, _, _)
forEachEntry(entries, i, dirPath, ctx, maxResults) ==
  IF i > Len(entries) THEN ctx
  ELSE forEachEntry(entries, i + 1, dirPath,
                    processGrepEntry(entries[i], Append(dirPath, i), ctx,
                                     maxResults),
                    maxResults)

\* walkDirectoryForGrep
walkDirectoryForGrep(directory, dirPath, ctx, maxResults) ==
  IF Len(ctx.results) >= maxResults THEN ctx
  ELSE forEachEntry(directory.entries, 1, dirPath, ctx, maxResults)

\* grepSearch: ctx after the search (ctx.results is what it returns)
grepSearch(target, maxResults) ==
  IF target.type = "file"
  THEN searchFileForPattern(target, <<>>, NewGrepContext, maxResults)
  ELSE walkDirectoryForGrep(target, <<>>, NewGrepContext, maxResults)

\* the files drawn: one matching line; a miss followed by two matching
\* lines; unreadable; skipped
GrepFiles ==
  { GrepFile("text", <<TRUE>>), GrepFile("text", <<FALSE, TRUE, TRUE>>),
    GrepFile("unreadable", <<>>), GrepFile("skipped", <<TRUE>>) }

\* directories of files
GrepLeafDirectories ==
  { GrepDirectory(entries) :
      entries \in UNION { [1..n -> GrepFiles] : n \in 0..MaxFiles } }

\* what targetPath may be: a file, or a directory of files and directories
GrepTargets ==
  GrepFiles
  \cup { GrepDirectory(entries) :
           entries \in UNION { [1..n -> GrepFiles \cup GrepLeafDirectories] :
                                 n \in 0..MaxFiles } }

InitGrep ==
  /\ Constructed
  /\ NoTokenCall
  /\ NoSessionCall
  /\ grepTarget \in GrepTargets
  /\ grepCall = [called |-> FALSE, maxResults |-> 0, ctx |-> NewGrepContext]
  /\ NoHistoryCall

\* a caller searches targetPath with a limit
GrepSearch ==
  /\ ~grepCall.called
  /\ \E maxResults \in 1..MaxResults :
       grepCall' = [called |-> TRUE, maxResults |-> maxResults,
                    ctx |-> grepSearch(grepTarget, maxResults)]
  /\ UNCHANGED <<grepTarget, runVars, tokenVars, sessionVars, historyVars>>

NextGrep == GrepSearch

SpecGrep == InitGrep /\ [][NextGrep]_vars

\* --------------------------------------------------------------- SpecHistory
\* formatCompactToolCall on its own: a list_dir or grep_search call has
\* returned (its helper gave files or results) or failed, then
\* processToolCalls formats its compact line

\* the FileInfo records listDirectory can return
FileInfos ==
  [dir : {"", "a", "b"}, name : {"f"}, type : {"file", "directory"}]

\* the GrepResult records grepSearch can return
GrepResults == [file : {"a", "b"}, line : 1..2, content : {"x"}]

\* the finished calls: list_dir of directory "a" or grep_search for "x"
HistoryCalls ==
  { [name |-> "list_dir", path |-> "a", success |-> TRUE, files |-> files,
     results |-> <<>>] :
      files \in UNION { [1..n -> FileInfos] : n \in 0..MaxFiles } }
  \cup
  { [name |-> "grep_search", path |-> "a", success |-> TRUE, files |-> <<>>,
     results |-> results] :
      results \in UNION { [1..n -> GrepResults] : n \in 0..MaxResults } }
  \cup
  { [name |-> name, path |-> "a", success |-> FALSE, files |-> <<>>,
     results |-> <<>>] : name \in {"list_dir", "grep_search"} }

\* the result executeTool gave for a finished call
ResultOf(call) ==
  IF ~call.success THEN [success |-> FALSE, output |-> <<>>]
  ELSE IF call.name = "list_dir" THEN executeListDir(call.files, call.path)
  ELSE executeGrepSearch(call.results, "x")

InitHistory ==
  /\ Constructed
  /\ NoTokenCall
  /\ NoSessionCall
  /\ NoGrepCall
  /\ historyCall \in HistoryCalls
  /\ historyLine = <<>>

\* processToolCalls pushes the call's compact line
FormatCompactToolCall ==
  /\ historyLine = <<>>
  /\ historyLine' =
       <<formatCompactToolCall(historyCall.name,
                               [NoInput EXCEPT !.path = historyCall.path],
                               ResultOf(historyCall))>>
  /\ UNCHANGED <<historyCall, runVars, tokenVars, sessionVars, grepVars>>

NextHistory == FormatCompactToolCall

SpecHistory == InitHistory /\ [][NextHistory]_vars

\* ---------------------------------------------------------------- claims

\* C1: through any sequence of updateSection and removeSection calls the sum
\* of the stored sections' token counts never exceeds floor(maxTokens * 1.2).
C1_CapacityInvariant ==
  LET RECURSIVE Sum(_)
      Sum(secs) == IF secs = <<>> THEN 0 ELSE Head(secs).tokens + Sum(Tail(secs))
  IN Sum(bb.sections) * 10 <= bb.maxTokens * 12

\* a write was rejected on a blackboard filled exactly to the hard cap
C1_Witness ==
  /\ lastCall.op = "updateSection"
  /\ ~lastCall.success
  /\ getTotalTokens(bb) = (bb.maxTokens * 12) \div 10
  /\ getTotalTokens(bb) > bb.maxTokens

\* C2: an updateSection call whose resulting total would exceed the hard cap
\* returns success = false and leaves the whole blackboard (keys, contents,
\* token counts, timestamps, total, updatedAt) as it was.
C2_RejectedWriteMutatesNothing ==
  [][ LET call == lastCall'
          k == KeyIndex(bb.sections, call.sectionName)
          candidate ==
            IF call.replace \/ k = 0 \/ bb.sections[k].content = <<>>
            THEN call.content
            ELSE bb.sections[k].content \o <<"\n", "\n">> \o call.content
          others == SumTokens(MapDelete(bb.sections, call.sectionName))
          resulting == others + estimateTokens(candidate)
      IN (call.op = "updateSection" /\ now' = now + 1
          /\ resulting * 10 > bb.maxTokens * 12)
         => (~call.success /\ bb' = bb) ]_vars

\* a write to a populated blackboard was rejected and left no trace
C2_Witness ==
  /\ lastCall.op = "updateSection"
  /\ ~lastCall.success
  /\ bb.sections # <<>>
  /\ bb.updatedAt < now

\* C3: on a stopping response (no tool_use block, or stop reason end_turn) the
\* loop nudges and increments the nudge counter exactly when utilization is
\* below 65% and fewer than 3 nudges were issued; otherwise it terminates;
\* a response that is not stopping is never nudged.
C3_CompletionGate ==
  [][ (pc = "model-call" /\ pc' # "failed") =>
      LET resp == response'
          stopping == ~hasToolUseOf(resp) \/ resp.stop_reason = "end_turn"
          underfilled == getTotalTokens(bb) * 100 < 65 * getMaxTokens(bb)
      IN IF stopping /\ underfilled /\ completionNudges < 3
         THEN /\ completionNudges' = completionNudges + 1
              /\ running' /\ pc' = "loop"
              /\ Len(messages') = Len(messages) + 2
              /\ Last(messages').kind = "nudge"
              /\ Last(workingMessages').kind = "nudge"
         ELSE /\ completionNudges' = completionNudges
              /\ IF stopping
                 THEN ~running' /\ pc' = "loop" /\ messages' = messages
                 ELSE running' /\ pc' = "tool-dispatch" ]_vars

\* a no-tool response was nudged at 50% with no prior nudge, and later a
\* no-tool response at 70% terminated the loop
C3_Witness ==
  /\ pc = "loop" /\ ~running
  /\ ~hasToolUseOf(response)
  /\ getTotalTokens(bb) * 10 = 7 * getMaxTokens(bb)
  /\ completionNudges = 1
  /\ \E i \in 2..Len(messages) :
       /\ messages[i].kind = "nudge" /\ messages[i].pct = 50
       /\ \A k \in 1..Len(messages[i - 1].blocks) :
            ~IsToolUse(messages[i - 1].blocks[k])

\* C4: the number of model calls never exceeds the configured maximum, and
\* every iteration, nudged ones included, counts toward it.
C4_IterationCap ==
  /\ stats.iterations <= MaxIterations
  /\ Len(SelectSeq(events, LAMBDA e : e = "iteration")) = stats.iterations
  /\ stats.iterations =
       Len(wroteLog)
       + (IF pc \in {"model-call", "tool-dispatch", "failed"} THEN 1 ELSE 0)

\* the cap stopped a run in which an iteration ended in a nudge
C4_Witness ==
  /\ pc = "done" /\ running
  /\ stats.iterations = MaxIterations
  /\ completionNudges > 0

\* C5: when no model call throws, every run of the loop ends in state done; a run ends
\* only because the completion decision stopped it or the cap was reached,
\* and then 'complete' was emitted and no error raised.
C5_RunEnds ==
  /\ ([](pc \notin {"rejected", "failed"})) => <>(pc = "done")
  /\ [](pc \in {"saving", "done"} =>
          /\ ~running \/ stats.iterations = MaxIterations
          /\ Last(events) = "complete"
          /\ \A i \in 1..Len(events) : events[i] # "error")

\* the cap ended a run whose last response still requested tools
C5_Witness ==
  /\ pc = "done" /\ running
  /\ stats.iterations = MaxIterations
  /\ hasToolUseOf(response) /\ response.stop_reason = "tool_use"
  /\ Last(messages).kind = "tool_results"
  /\ Last(events) = "complete"

\* C6: the messages of every model call are the rolling window: the initial
\* user message on the first iteration, afterwards exactly the previous
\* iteration's assistant response and the user reply to it.
C6_RollingWindow ==
  pc = "model-call" =>
    IF stats.iterations = 1
    THEN workingMessages = <<InitialMessage>>
    ELSE /\ Len(workingMessages) = 2
         /\ workingMessages[1].role = "assistant"
         /\ workingMessages[1].iter = stats.iterations - 1
         /\ workingMessages[2].role = "user"
         /\ workingMessages[2].iter = stats.iterations - 1
         /\ workingMessages[2].kind \in {"tool_results", "nudge"}
         /\ workingMessages = SubSeq(messages, Len(messages) - 1, Len(messages))

\* the last model call of a long run is in flight with a two-message window
C6_Witness ==
  /\ pc = "model-call"
  /\ stats.iterations = MaxIterations
  /\ Len(messages) = 2 * MaxIterations - 1
  /\ Len(workingMessages) = 2

\* C7 (as claimed): the archive starts with the initial user message and
\* holds every model response received, the last one included.
C7_ArchiveComplete ==
  pc \in {"loop", "saving", "done"} =>
    /\ messages[1] = InitialMessage
    /\ \A n \in 1..stats.iterations :
         \E i \in 1..Len(messages) :
           messages[i].role = "assistant" /\ messages[i].iter = n

\* C8 (as claimed): the transcript saveArtifacts hands to the output layer is
\* the archive built by the loop, never an empty list.
C8_SavedTranscriptIsArchive ==
  artifacts.written =>
    /\ artifacts.conversation = messages
    /\ artifacts.conversation # <<>>

\* C9 (as claimed): at the start of an iteration the counter equals the
\* number of immediately preceding iterations without a successful write.
C9_StallCounterCountsIterations ==
  (pc = "loop" /\ loopContinues(running, stats.iterations, MaxIterations)) =>
    LET stalled == {n \in 0..Len(wroteLog) :
                      \A i \in (Len(wroteLog) - n + 1)..Len(wroteLog) :
                        ~wroteLog[i]}
    IN iterationsSinceBlackboardWrite
         = CHOOSE n \in stalled : \A m \in stalled : m <= n

\* C10 (as claimed): the counter is updated for each dispatched call: reset
\* by a successful blackboard write, incremented by any other call.
C10_CounterUpdatedPerCall ==
  [][ pc = "tool-dispatch" =>
      LET rec == Last(toolCallHistory') IN
      IF rec.name = "update_blackboard" /\ rec.success
      THEN iterationsSinceBlackboardWrite' = 0
      ELSE iterationsSinceBlackboardWrite'
             = iterationsSinceBlackboardWrite + 1 ]_vars

\* C10 (amended): the counter does not change while calls are dispatched;
\* after the last call of the response it is updated once: zero if any call
\* of the response was a successful blackboard write, else one more.
C10_CounterUpdatedPerResponse ==
  [][ pc = "tool-dispatch" =>
      IF pc' = "tool-dispatch"
      THEN iterationsSinceBlackboardWrite' = iterationsSinceBlackboardWrite
      ELSE LET wrote ==
                 \E i \in 1..Len(toolCallHistory') :
                   /\ toolCallHistory'[i].iteration = stats.iterations
                   /\ toolCallHistory'[i].name = "update_blackboard"
                   /\ toolCallHistory'[i].success
           IN iterationsSinceBlackboardWrite'
                = IF wrote THEN 0 ELSE iterationsSinceBlackboardWrite + 1 ]_vars

\* a response with two failed calls and no write raised the counter by one,
\* after an earlier response whose write was followed by another call
C10_Witness ==
  /\ pc = "loop"
  /\ iterationsSinceBlackboardWrite = 1
  /\ Len(toolCallHistory) = 4
  /\ toolCallHistory[1].iteration = toolCallHistory[2].iteration
  /\ toolCallHistory[1].name = "update_blackboard" /\ toolCallHistory[1].success
  /\ toolCallHistory[2].name = "list_dir"
  /\ toolCallHistory[3].iteration = toolCallHistory[4].iteration
  /\ ~toolCallHistory[3].success /\ ~toolCallHistory[4].success

\* C11 (as claimed): with the profile's threshold T and the counter N, the
\* system prompt of a model call has no stall warning when N < T, a warning
\* when N >= T, and the warning is critical when N >= T + 2.
C11_StallWarningFollowsThreshold ==
  pc = "model-call" =>
    LET N == iterationsSinceBlackboardWrite
        T == stallWarningThreshold
    IN systemPrompt.stallWarning.severity
         = IF N < T THEN "none"
           ELSE IF N >= T + 2 THEN "critical" ELSE "warning"

\* C12: the tool calls of a response are executed one after another in the
\* requested order, each on the blackboard the previous call left, and the
\* tool-result message holds one result per call, in order, with the call's id.
C12_SequentialInOrder ==
  [][ pc = "tool-dispatch" =>
      LET toolUses == SelectSeq(response.content, IsToolUse)
          k        == Len(toolResults) + 1
          call     == toolUses[k]
          rec      == Last(toolCallHistory')
          outcome  == executeTool(call.name, call.input, bb, now')
      IN /\ Len(toolCallHistory') = Len(toolCallHistory) + 1
         /\ rec.name = call.name /\ rec.input = call.input
         /\ \A i \in 1..Len(toolCallHistory) :
              toolCallHistory[i].timestamp < rec.timestamp
         /\ bb' = outcome.bb
         /\ Len(toolResults') = k
         /\ SubSeq(toolResults', 1, k - 1) = toolResults
         /\ toolResults'[k].tool_use_id = call.id
         /\ toolResults'[k].kind = outcome.kind
         /\ toolResults'[k].detail = outcome.detail
         /\ (pc' = "loop") = (k = Len(toolUses))
         /\ pc' = "loop" =>
              /\ Last(messages').kind = "tool_results"
              /\ Len(Last(messages').results) = Len(toolUses)
              /\ \A j \in 1..Len(toolUses) :
                   Last(messages').results[j].tool_use_id = toolUses[j].id
              /\ Last(workingMessages') = Last(messages') ]_vars

\* a response asked for a blackboard write and then a listing: both results
\* came back in that order under the ids of their calls
C12_Witness ==
  /\ pc = "loop"
  /\ Last(messages).kind = "tool_results"
  /\ Len(Last(messages).results) = 2
  /\ Last(messages).results[1].kind = "updated"
  /\ Last(messages).results[1].tool_use_id = <<stats.iterations, 1>>
  /\ Last(messages).results[2].kind = "found"
  /\ Last(messages).results[2].tool_use_id = <<stats.iterations, 2>>
  /\ toolCallHistory[Len(toolCallHistory) - 1].name = "update_blackboard"

\* C13: a failed tool call does not end the run: its result is the error
\* text behind 'Error: ' (the output for a successful call), the remaining
\* calls of the response are still executed, no error is raised, and the loop
\* stays running for the next iteration.
C13_FailedToolCallIsRecoverable ==
  [][ pc = "tool-dispatch" =>
      LET rec    == Last(toolCallHistory')
          result == Last(toolResults')
      IN /\ result.isError = ~rec.success
         /\ result.tool_use_id = Head(pending).id
         /\ ~rec.success =>
              /\ result.kind \in {"not_found", "exceeds", "unknown_tool"}
              /\ pending' = Tail(pending)
              /\ IF Tail(pending) # <<>> THEN pc' = "tool-dispatch"
                 ELSE /\ pc' = "loop"
                      /\ Last(messages').results = toolResults'
              /\ running' /\ raised' = ""
              /\ Last(events') = "tool_result"
              /\ loopContinues(running', stats'.iterations, MaxIterations)
                   = (stats.iterations < MaxIterations) ]_vars

\* the first call of a response failed, the second was still executed, and
\* the next model call is in flight with both error results in its window
C13_Witness ==
  /\ pc = "model-call"
  /\ Len(workingMessages) = 2
  /\ workingMessages[2].kind = "tool_results"
  /\ Len(workingMessages[2].results) = 2
  /\ workingMessages[2].results[1].isError
  /\ workingMessages[2].results[1].kind = "not_found"
  /\ workingMessages[2].results[2].isError
  /\ workingMessages[2].results[2].kind = "exceeds"
  /\ raised = ""

\* C14: a failing model call is not retried: no step follows it, the stats
\* have their end time, saveArtifacts ran once with success = false and the
\* error text and without a summary, 'error' was emitted once, and analyze()
\* rejected with that error.
C14_ModelFailureEndsRun ==
  /\ [](pc = "failed" =>
          /\ raised \in ModelErrors
          /\ stats.endTime = now
          /\ artifacts.attempts = 1
          /\ ~artifacts.success /\ artifacts.error = raised
          /\ ~artifacts.summary
          /\ Last(events) = "error"
          /\ Len(SelectSeq(events, LAMBDA e : e = "error")) = 1
          /\ Len(SelectSeq(events, LAMBDA e : e = "iteration"))
               = Len(wroteLog) + 1)
  /\ [][pc # "failed"]_vars

\* the third model call of a run that had dispatched tools failed and the
\* error artifacts were saved
C14_Witness ==
  /\ pc = "failed"
  /\ raised = "529 overloaded"
  /\ stats.iterations = 3 /\ stats.toolCalls > 0
  /\ artifacts.written /\ ~artifacts.success

\* C15: when saving the error artifacts fails, analyze() still rejects with
\* the run's error, after emitting 'error'; no save, failed or not, changes
\* the blackboard.
C15_SaveFailureSwallowed ==
  /\ [](pc = "failed" /\ ~artifacts.written =>
          /\ raised \in ModelErrors
          /\ raised = artifacts.error
          /\ raised # SaveError
          /\ Last(events) = "error")
  /\ [][artifacts'.attempts # artifacts.attempts => bb' = bb]_vars

\* a model call failed after the blackboard was written to, and saving the
\* error artifacts failed
C15_Witness ==
  /\ pc = "failed"
  /\ artifacts.attempts = 1 /\ ~artifacts.written
  /\ raised = "Connection error."
  /\ bb.sections # <<>>

\* C16: Blackboard.seed throws exactly when an entry's write is rejected by
\* the hard cap, the error lists every rejected section and no blackboard is
\* returned; otherwise it returns a blackboard holding every entry.
C16_SeedAllOrNothing ==
  seeded.called =>
    LET entries == seeded.sections
        cap == (MaxTokens * 12) \div 10
        RECURSIVE Rejected(_, _)
        Rejected(i, total) ==
          IF i > Len(entries) THEN <<>>
          ELSE IF total + estimateTokens(entries[i].value) > cap
               THEN <<entries[i].key>> \o Rejected(i + 1, total)
               ELSE Rejected(i + 1, total + estimateTokens(entries[i].value))
        rejected == Rejected(1, 0)
    IN IF rejected # <<>>
       THEN /\ seeded.threw
            /\ seeded.returned = <<>>
            /\ [i \in 1..Len(seeded.failures) |-> seeded.failures[i].name]
                 = rejected
       ELSE /\ ~seeded.threw
            /\ Len(seeded.returned) = 1
            /\ Len(seeded.returned[1].sections) = Len(entries)
            /\ \A i \in 1..Len(entries) :
                 /\ seeded.returned[1].sections[i].name = entries[i].key
                 /\ seeded.returned[1].sections[i].content = entries[i].value
            /\ lastCall.op = "seed" => bb = seeded.returned[1]

\* seed({overview: small, notes: above the cap}) threw, naming notes only
C16_Witness ==
  /\ seeded.called /\ seeded.threw
  /\ seeded.returned = <<>>
  /\ Len(seeded.sections) = 2
  /\ seeded.sections[1].value = Rep("a", 4)
  /\ Len(seeded.failures) = 1
  /\ seeded.failures[1].name = "notes"

\* C17 (as claimed): fromJSON(toJSON(bb)) has the id, target path, maxTokens
\* and timestamps of bb and its sections with non-empty content, unchanged
\* and in the same order.
C17_RoundTrip ==
  LET restored == fromJSON(toJSON(bb), now + 1)
      filled   == SelectSeq(bb.sections, LAMBDA sec : sec.content # <<>>)
  IN /\ restored.id = bb.id
     /\ restored.targetPath = bb.targetPath
     /\ restored.maxTokens = bb.maxTokens
     /\ restored.createdAt = bb.createdAt
     /\ restored.updatedAt = bb.updatedAt
     /\ restored.sections = filled

\* C18: repeating updateSection(name, X, true) gives the result flag, the
\* stored content and token count of the section, and the total of the first
\* call.
C18_ReplaceIdempotent ==
  [][ ( /\ now' = now + 1
        /\ lastCall.op = "updateSection" /\ lastCall.replace
        /\ lastCall'.op = "updateSection" /\ lastCall'.replace
        /\ lastCall'.sectionName = lastCall.sectionName
        /\ lastCall'.content = lastCall.content ) =>
      LET k == KeyIndex(bb.sections, lastCall.sectionName) IN
      /\ lastCall'.success = lastCall.success
      /\ KeyIndex(bb'.sections, lastCall.sectionName) = k
      /\ k # 0 => /\ bb'.sections[k].content = bb.sections[k].content
                  /\ bb'.sections[k].tokens = bb.sections[k].tokens
      /\ lastCall.success => bb.sections[k].content = lastCall.content
      /\ getTotalTokens(bb') = getTotalTokens(bb) ]_vars

\* the same successful replace was made twice on a section that held other
\* content before
C18_Witness ==
  /\ now = 3
  /\ lastCall.op = "updateSection" /\ lastCall.replace /\ lastCall.success
  /\ prevCall = lastCall
  /\ lastCall.content = Rep("a", 4)
  /\ bb.sections[KeyIndex(bb.sections, lastCall.sectionName)].content
       = Rep("a", 4)
  /\ getTotalTokens(bb) = 1

\* C19: a successful append to an absent section or to one with empty
\* content stores the new content alone; a second successful append stores
\* the first content, "\n\n", then the second.
C19_AppendAccumulates ==
  [][ ( /\ now' = now + 1
        /\ lastCall'.op = "updateSection" /\ ~lastCall'.replace
        /\ lastCall'.success ) =>
      LET name   == lastCall'.sectionName
          k      == KeyIndex(bb.sections, name)
          stored == bb'.sections[KeyIndex(bb'.sections, name)].content
      IN /\ KeyIndex(bb'.sections, name) # 0
         /\ IF k = 0 THEN stored = lastCall'.content
            ELSE IF bb.sections[k].content = <<>>
            THEN stored = lastCall'.content
            ELSE /\ stored = bb.sections[k].content \o <<"\n", "\n">>
                               \o lastCall'.content
                 /\ ( /\ lastCall.op = "updateSection" /\ ~lastCall.replace
                      /\ lastCall.success /\ lastCall.sectionName = name
                      /\ bb.sections[k].content = lastCall.content ) =>
                    stored = lastCall.content \o <<"\n", "\n">>
                               \o lastCall'.content ]_vars

\* two appends to a section that did not exist left "aaaa", a blank line
\* and " a"
C19_Witness ==
  /\ now = 2
  /\ Len(bb.sections) = 1
  /\ prevCall.op = "updateSection" /\ ~prevCall.replace /\ prevCall.success
  /\ lastCall.op = "updateSection" /\ ~lastCall.replace /\ lastCall.success
  /\ prevCall.sectionName = lastCall.sectionName
  /\ prevCall.content = Rep("a", 4) /\ lastCall.content = <<" ", "a">>
  /\ bb.sections[1].content = <<"a", "a", "a", "a", "\n", "\n", " ", "a">>

\* C20: every stored section's token count is estimateTokens of its current
\* content, getTotalTokens() is the sum of these, and after one successful
\* replace on a fresh blackboard the total is estimateTokens of the content.
C20_TokensFollowContent ==
  LET RECURSIVE Estimated(_)
      Estimated(secs) ==
        IF secs = <<>> THEN 0
        ELSE estimateTokens(Head(secs).content) + Estimated(Tail(secs))
  IN /\ \A i \in 1..Len(bb.sections) :
          bb.sections[i].tokens = estimateTokens(bb.sections[i].content)
     /\ getTotalTokens(bb) = Estimated(bb.sections)
     /\ ( /\ now = 1 /\ lastCall.op = "updateSection"
          /\ lastCall.replace /\ lastCall.success ) =>
        getTotalTokens(bb) = estimateTokens(lastCall.content)

\* an append grew a section whose count is that of the joined content
C20_Witness ==
  /\ lastCall.op = "updateSection" /\ ~lastCall.replace /\ lastCall.success
  /\ Len(bb.sections) = 2
  /\ \E i \in 1..2 :
       /\ bb.sections[i].name = lastCall.sectionName
       /\ Len(bb.sections[i].content) > Len(lastCall.content) + 2
       /\ bb.sections[i].tokens > estimateTokens(lastCall.content)

\* C21: updateSection succeeds exactly when the total without the target
\* section plus estimateTokens of the candidate content is at most
\* floor(maxTokens * 1.2): reaching the cap exactly is accepted.
C21_AcceptedIffWithinHardCap ==
  [][ (now' = now + 1 /\ lastCall'.op = "updateSection") =>
      LET call == lastCall'
          k == KeyIndex(bb.sections, call.sectionName)
          current == IF k = 0 THEN 0 ELSE bb.sections[k].tokens
          candidate ==
            IF call.replace \/ k = 0 \/ bb.sections[k].content = <<>>
            THEN call.content
            ELSE bb.sections[k].content \o <<"\n", "\n">> \o call.content
          resulting == getTotalTokens(bb) - current + estimateTokens(candidate)
      IN /\ call.success = (resulting * 10 <= bb.maxTokens * 12)
         /\ call.success => getTotalTokens(bb') = resulting ]_vars

\* a write above the soft budget brought the total exactly to the hard cap
C21_Witness ==
  /\ lastCall.op = "updateSection" /\ lastCall.success
  /\ lastCall.newTotal = (bb.maxTokens * 12) \div 10
  /\ getTotalTokens(bb) = lastCall.newTotal
  /\ getTotalTokens(bb) > bb.maxTokens
  /\ prevCall.op = "updateSection" /\ prevCall.success
  /\ prevCall.newTotal < bb.maxTokens

\* C22: getRemainingTokens() is max(0, maxTokens - getTotalTokens()): never
\* negative, and 0 whenever the total is between the soft budget and the
\* hard cap.
C22_RemainingAgainstSoftBudget ==
  LET total == SumTokens(bb.sections) IN
  /\ getRemainingTokens(bb) >= 0
  /\ total <= bb.maxTokens => getRemainingTokens(bb) = bb.maxTokens - total
  /\ total >= bb.maxTokens => getRemainingTokens(bb) = 0

\* with the total at the soft budget (remaining 0) one more write was accepted
C22_Witness ==
  /\ prevCall.op = "updateSection" /\ prevCall.success
  /\ prevCall.newTotal = bb.maxTokens
  /\ lastCall.op = "updateSection" /\ lastCall.success
  /\ lastCall.newTotal > bb.maxTokens
  /\ getTotalTokens(bb) = lastCall.newTotal
  /\ getRemainingTokens(bb) = 0

\* C23: the nudge counter starts at 0, grows by exactly 1 with each nudge and
\* changes in no other way, never exceeds 3, and with 3 nudges issued a
\* stopping response ends the loop whatever the utilization.
C23_NudgeCounter ==
  /\ [](completionNudges \in 0..3 /\ (pc = "idle" => completionNudges = 0))
  /\ [][ LET nudged == /\ Len(messages') = Len(messages) + 2
                       /\ Last(messages').kind = "nudge"
         IN /\ nudged => completionNudges' = completionNudges + 1
            /\ ~nudged => completionNudges' = completionNudges
            /\ ( /\ pc = "model-call" /\ pc' # "failed"
                 /\ completionNudges = 3
                 /\ ~hasToolUseOf(response')
                    \/ response'.stop_reason = "end_turn" ) =>
               (~running' /\ pc' = "loop" /\ messages' = messages) ]_vars

\* after three nudges a stopping response ended the loop on a blackboard
\* below 65% utilization
C23_Witness ==
  /\ pc = "loop" /\ ~running
  /\ completionNudges = 3
  /\ getTotalTokens(bb) * 100 < 65 * getMaxTokens(bb)
  /\ Len(SelectSeq(messages, LAMBDA m : m.kind = "nudge")) = 3

\* C24: the system prompt of a model call shows the state of that moment:
\* the blackboard's usage and, when the total is above zero, its non-empty
\* sections, the tool history so far and the current stall counter; building
\* it changes none of them.
C24_PromptFromCurrentState ==
  /\ [](pc = "model-call" =>
          LET filled == SelectSeq(bb.sections, LAMBDA sec : sec.content # <<>>)
              calls  == Len(toolCallHistory)
          IN /\ systemPrompt.tokens = SumTokens(bb.sections)
             /\ systemPrompt.maxTokens = bb.maxTokens
             /\ systemPrompt.remaining = getRemainingTokens(bb)
             /\ IF SumTokens(bb.sections) > 0
                THEN /\ Len(systemPrompt.existing) = Len(filled)
                     /\ \A i \in 1..Len(filled) :
                          systemPrompt.existing[i].content = filled[i].content
                ELSE systemPrompt.existing = <<>>
             /\ systemPrompt.toolHistorySummary.totalCalls = calls
             /\ systemPrompt.toolHistorySummary.recent
                  = SubSeq(compactToolHistory,
                           (IF calls > 15 THEN calls - 15 ELSE 0) + 1, calls)
             /\ \A i \in 1..calls :
                  toolCallHistory[i].iteration < stats.iterations
             /\ systemPrompt.stallWarning
                  = buildStallWarning(iterationsSinceBlackboardWrite))
  /\ [][ (pc = "loop" /\ pc' = "model-call") =>
         UNCHANGED <<bb, toolCallHistory, compactToolHistory,
                     iterationsSinceBlackboardWrite, messages,
                     workingMessages>> ]_vars

\* a model call is in flight after an iteration that wrote to the blackboard
\* and listed a directory: its prompt dumps the section and counts two calls
C24_Witness ==
  /\ pc = "model-call"
  /\ stats.iterations = 2
  /\ systemPrompt.toolHistorySummary.totalCalls = 2
  /\ systemPrompt.toolHistorySummary.dirs = <<".">>
  /\ Len(systemPrompt.existing) = 1
  /\ systemPrompt.existing[1].heading = "OVERVIEW"
  /\ systemPrompt.tokens = 1
  /\ systemPrompt.stallWarning.severity = "none"

\* C25: during a run only a successful update_blackboard call changes the
\* blackboard; any other tool call, a rejected write included, leaves it
\* as it was.
C25_OnlySuccessfulWritesChangeBlackboard ==
  [][ /\ bb' # bb =>
           /\ pc = "tool-dispatch"
           /\ Head(pending).name = "update_blackboard"
           /\ Last(toolCallHistory').success
      /\ ( /\ pc = "tool-dispatch"
           /\ \/ Head(pending).name # "update_blackboard"
              \/ ~Last(toolCallHistory').success ) => bb' = bb ]_vars

\* a listing and a rejected write were dispatched after an accepted write,
\* and the blackboard still carries the time of the accepted one
C25_Witness ==
  /\ pc = "loop"
  /\ Len(toolCallHistory) >= 3
  /\ Last(toolCallHistory).name = "update_blackboard"
  /\ ~Last(toolCallHistory).success
  /\ toolCallHistory[Len(toolCallHistory) - 1].name = "list_dir"
  /\ bb.sections # <<>>
  /\ bb.updatedAt < toolCallHistory[Len(toolCallHistory) - 1].timestamp

\* C26: executeTool returns for every tool name and input, on every
\* blackboard of a run: the result has a duration and a success flag, and a
\* failure (unknown tool, a throw inside a tool, capacity exceeded) is
\* success = false with an error text.
C26_ExecuteToolNeverThrows ==
  /\ \A name \in {"list_dir", "file_read", "grep_search", "update_blackboard",
                  "bogus"} :
     \A path \in {".", "missing"}, content \in Contents, replace \in BOOLEAN :
       LET input == [NoInput EXCEPT !.path = path, !.section = "notes",
                                    !.content = content, !.replace = replace]
           result == executeTool(name, input, bb, now + 1)
       IN /\ ~result.threw
          /\ result.success \in BOOLEAN
          /\ result.durationMs >= 0
          /\ result.success = (result.kind \in {"found", "updated"})
          /\ ~result.success =>
               result.kind \in {"not_found", "exceeds", "unknown_tool"}
          /\ (name = "bogus") => result.kind = "unknown_tool"
          /\ (name \in {"list_dir", "file_read", "grep_search"}
              /\ path = "missing") => result.kind = "not_found"
  /\ \A i \in 1..Len(toolCallHistory) :
       /\ toolCallHistory[i].durationMs >= 0
       /\ toolCallHistory[i].success
            = (toolCallHistory[i].kind \in {"found", "updated"})

\* a run dispatched a listing of a missing path, a write above the cap and an
\* unknown tool: each came back as a failure result
C26_Witness ==
  /\ \E i \in 1..Len(toolCallHistory) :
       toolCallHistory[i].kind = "not_found" /\ ~toolCallHistory[i].success
  /\ \E i \in 1..Len(toolCallHistory) :
       toolCallHistory[i].kind = "exceeds" /\ ~toolCallHistory[i].success
  /\ \E i \in 1..Len(toolCallHistory) :
       toolCallHistory[i].kind = "unknown_tool" /\ ~toolCallHistory[i].success
  /\ raised = ""

\* C27: at every iteration boundary stats.toolCalls, the length of the
\* tool-call history and the number of compact lines are equal; the history
\* only grows at its end, in dispatch order, and every record carries the
\* iteration of its dispatch.
C27_ToolCallBookkeeping ==
  /\ [](/\ stats.toolCalls = Len(toolCallHistory)
        /\ Len(compactToolHistory) = Len(toolCallHistory)
        /\ \A i \in 1..Len(toolCallHistory) :
             /\ compactToolHistory[i].name = toolCallHistory[i].name
             /\ compactToolHistory[i].mark = toolCallHistory[i].success
             /\ toolCallHistory[i].iteration \in 1..stats.iterations
             /\ \A j \in 1..(i - 1) :
                  /\ toolCallHistory[j].iteration <= toolCallHistory[i].iteration
                  /\ toolCallHistory[j].timestamp < toolCallHistory[i].timestamp)
  /\ [][ /\ \/ toolCallHistory' = toolCallHistory
            \/ /\ pc = "tool-dispatch"
               /\ Len(toolCallHistory') = Len(toolCallHistory) + 1
               /\ SubSeq(toolCallHistory', 1, Len(toolCallHistory))
                    = toolCallHistory
               /\ Last(toolCallHistory').iteration = stats.iterations
               /\ Last(toolCallHistory').name = Head(pending).name
               /\ Last(toolCallHistory').input = Head(pending).input
         /\ \/ compactToolHistory' = compactToolHistory
            \/ SubSeq(compactToolHistory', 1, Len(compactToolHistory))
                 = compactToolHistory ]_vars

\* the third iteration ended with four calls on record, two of them from one
\* response
C27_Witness ==
  /\ pc = "loop"
  /\ stats.iterations = 3
  /\ stats.toolCalls = 4
  /\ Len(toolCallHistory) = 4 /\ Len(compactToolHistory) = 4
  /\ toolCallHistory[1].iteration = 1
  /\ toolCallHistory[2].iteration = 2 /\ toolCallHistory[3].iteration = 2
  /\ toolCallHistory[4].iteration = 3

\* C28: after every response each cumulative usage figure is the sum of the
\* responses' usage values (an absent field counts 0), no figure decreases,
\* and total = input + output.
C28_CumulativeUsage ==
  /\ [](LET RECURSIVE SumOf(_, _)
            SumOf(log, field) ==
              IF log = <<>> THEN 0
              ELSE (IF Head(log)[field] = -1 THEN 0 ELSE Head(log)[field])
                   + SumOf(Tail(log), field)
        IN /\ stats.totalTokens.input = SumOf(usageLog, "input_tokens")
           /\ stats.totalTokens.output = SumOf(usageLog, "output_tokens")
           /\ stats.totalTokens.cacheCreation
                = SumOf(usageLog, "cache_creation_input_tokens")
           /\ stats.totalTokens.cacheRead
                = SumOf(usageLog, "cache_read_input_tokens")
           /\ stats.totalTokens.total
                = stats.totalTokens.input + stats.totalTokens.output)
  /\ [][ /\ stats'.totalTokens.input >= stats.totalTokens.input
         /\ stats'.totalTokens.output >= stats.totalTokens.output
         /\ stats'.totalTokens.cacheCreation >= stats.totalTokens.cacheCreation
         /\ stats'.totalTokens.cacheRead >= stats.totalTokens.cacheRead
         /\ (pc = "model-call" /\ pc' # "failed") =>
              /\ Len(usageLog') = Len(usageLog) + 1
              /\ Last(usageLog') = response'.usage ]_vars

\* three responses were received, one without cache fields, one with a zero
\* and one with both
C28_Witness ==
  /\ Len(usageLog) = 3
  /\ usageLog[1].cache_read_input_tokens = -1
  /\ usageLog[2].cache_creation_input_tokens = 0
  /\ usageLog[3].cache_creation_input_tokens = 1
  /\ stats.totalTokens.cacheRead = 2
  /\ stats.totalTokens.total = 8

\* C29: a stored section with empty content is left out of getSections,
\* getSectionNames and getAllSectionsForContext and getSection gives '' for
\* it, while its key stays in the blackboard and in toJSON until
\* removeSection is called for it.
C29_EmptySectionHiddenButStored ==
  /\ [](\A i \in 1..Len(bb.sections) :
          bb.sections[i].content = <<>> =>
            LET name == bb.sections[i].name IN
            /\ getSection(bb, name) = <<>>
            /\ \A j \in 1..Len(getSections(bb)) : getSections(bb)[j].name # name
            /\ \A j \in 1..Len(getSectionNames(bb)) : getSectionNames(bb)[j] # name
            /\ \A j \in 1..Len(getAllSectionsForContext(bb)) :
                 getAllSectionsForContext(bb)[j].heading # toUpperCase(name)
            /\ \E j \in 1..Len(toJSON(bb).sections) :
                 /\ toJSON(bb).sections[j].key = name
                 /\ toJSON(bb).sections[j].value.content = <<>>)
  /\ [][ \A i \in 1..Len(bb.sections) :
           ( /\ bb.sections[i].content = <<>>
             /\ lastCall'.op # "seed"
             /\ ~(lastCall'.op = "removeSection"
                  /\ lastCall'.sectionName = bb.sections[i].name) ) =>
           KeyIndex(bb'.sections, bb.sections[i].name) # 0 ]_vars

\* a section was replaced with empty content next to a filled one, and a
\* later call on the other section left its key stored
C29_Witness ==
  /\ now = 3
  /\ Len(bb.sections) = 2
  /\ bb.sections[1].content = <<>>
  /\ bb.sections[2].content # <<>>
  /\ getSectionNames(bb) = <<bb.sections[2].name>>
  /\ lastCall.op = "updateSection" /\ lastCall.sectionName = bb.sections[2].name
  /\ prevCall.op = "updateSection" /\ prevCall.success
  /\ prevCall.sectionName = bb.sections[1].name /\ prevCall.replace
  /\ prevCall.content = <<>>

\* C30: the non-empty sections are listed in the order their keys were
\* inserted: a write to a stored key keeps every position, a write to a key
\* that is not stored (never written, or removed) puts it last.
C30_InsertionOrder ==
  /\ [](LET keys   == [i \in 1..Len(bb.sections) |-> bb.sections[i].name]
            listed == SelectSeq(keys, LAMBDA n :
                        bb.sections[KeyIndex(bb.sections, n)].content # <<>>)
        IN /\ getSectionNames(bb) = listed
           /\ [i \in 1..Len(getSections(bb)) |-> getSections(bb)[i].name]
                = listed
           /\ [i \in 1..Len(getAllSectionsForContext(bb)) |->
                 getAllSectionsForContext(bb)[i].heading]
                = [i \in 1..Len(listed) |-> toUpperCase(listed[i])])
  /\ [][ (now' = now + 1 /\ lastCall'.op = "updateSection"
          /\ lastCall'.success) =>
         LET keys  == [i \in 1..Len(bb.sections) |-> bb.sections[i].name]
             keys2 == [i \in 1..Len(bb'.sections) |-> bb'.sections[i].name]
         IN IF KeyIndex(bb.sections, lastCall'.sectionName) # 0
            THEN keys2 = keys
            ELSE keys2 = Append(keys, lastCall'.sectionName) ]_vars

\* a seeded blackboard listed two sections; the first was removed and
\* written again and is now listed after the other
C30_Witness ==
  /\ now = 3
  /\ prevCall.op = "removeSection" /\ prevCall.success
  /\ lastCall.op = "updateSection" /\ lastCall.success
  /\ lastCall.sectionName = prevCall.sectionName
  /\ seeded.called /\ ~seeded.threw
  /\ Len(seeded.sections) = 2
  /\ seeded.sections[1].key = lastCall.sectionName
  /\ seeded.sections[2].value # <<>>
  /\ getSectionNames(bb) = <<seeded.sections[2].key, seeded.sections[1].key>>

\* C31: removeSection(name) returns true exactly when the key is stored, an
\* empty section included; then the key is gone, the total has dropped by
\* that section's token count and the other sections are as they were, in
\* their order; when it returns false the blackboard, updatedAt included, is
\* unchanged.
C31_RemoveSection ==
  [][ (lastCall'.op = "removeSection" /\ now' = now + 1) =>
      LET name == lastCall'.sectionName
          k    == KeyIndex(bb.sections, name)
      IN /\ lastCall'.success = (k # 0)
         /\ IF k # 0
            THEN /\ KeyIndex(bb'.sections, name) = 0
                 /\ getTotalTokens(bb') =
                      getTotalTokens(bb) - bb.sections[k].tokens
                 /\ bb'.sections =
                      SubSeq(bb.sections, 1, k - 1)
                        \o SubSeq(bb.sections, k + 1, Len(bb.sections))
                 /\ bb'.updatedAt = now'
            ELSE bb' = bb ]_vars

\* a stored section with empty content was removed from beside a filled one,
\* and the call returned true
C31_Witness ==
  /\ lastCall.op = "removeSection" /\ lastCall.success
  /\ prevCall.op = "updateSection" /\ prevCall.success
  /\ prevCall.sectionName = lastCall.sectionName
  /\ prevCall.replace /\ prevCall.content = <<>>
  /\ Len(bb.sections) = 1
  /\ bb.sections[1].tokens > 0
  /\ bb.updatedAt = now

\* C32: estimateTokens(text) is ceil(L / 4) for L the length of text without
\* its leading and trailing whitespace; texts with the same trimmed content
\* get the same estimate, a text whose trimmed length is not larger never
\* gets a larger estimate, and empty or whitespace-only text gets 0.
C32_EstimateTokens ==
  tokenEstimates # <<>> =>
    LET \* positions with a non-whitespace character at or before and at or
        \* after them: what trimming keeps
        Kept(text) ==
          { i \in 1..Len(text) :
              /\ \E j \in 1..i : ~IsWhitespace(text[j])
              /\ \E k \in i..Len(text) : ~IsWhitespace(text[k]) }
        L(text) == Cardinality(Kept(text))
        KeptText(text) ==
          [i \in 1..L(text) |->
             text[i + Cardinality({j \in 1..Len(text) :
                                     \A k \in 1..j : IsWhitespace(text[k])})]]
        s == tokenTexts[1]
        t == tokenTexts[2]
    IN /\ \A n \in 1..2 :
            /\ 4 * tokenEstimates[n] >= L(tokenTexts[n])
            /\ 4 * (tokenEstimates[n] - 1) < L(tokenTexts[n])
            /\ tokenEstimates[n] >= 0
            /\ (\A i \in 1..Len(tokenTexts[n]) : IsWhitespace(tokenTexts[n][i]))
                 => tokenEstimates[n] = 0
       /\ KeptText(s) = KeptText(t) => tokenEstimates[1] = tokenEstimates[2]
       /\ L(s) <= L(t) => tokenEstimates[1] <= tokenEstimates[2]

\* a five-character text with whitespace around one letter estimated 1
\* beside an untrimmed five-letter text that estimated 2
C32_Witness ==
  /\ tokenEstimates = <<1, 2>>
  /\ tokenTexts[1] = <<" ", "\n", "a", " ", "\n">>
  /\ tokenTexts[2] = Rep("a", 5)

\* C33: when the summary call fails after a finished run, saveArtifacts goes
\* on: the summary handed to saveSummary is the placeholder with the call's
\* error message followed by the blackboard's Markdown, which holds every
\* section with content; the other artifacts are those of a successful run,
\* and analyze() raises nothing unless a write of the output layer fails.
C33_SummaryFailureFallsBack ==
  /\ [][ (pc = "saving" /\ pc' = "done" /\ artifacts'.summaryFile.failed) =>
         /\ artifacts'.summary /\ artifacts'.savedSummary
         /\ \E call \in SummaryCalls :
              call.threw /\ artifacts'.summaryFile.text = call.text
         /\ artifacts'.summaryFile.markdown = toMarkdown(bb)
         /\ \A i \in 1..Len(bb.sections) :
              bb.sections[i].content # <<>> =>
                \E j \in 1..Len(artifacts'.summaryFile.markdown.sections) :
                  artifacts'.summaryFile.markdown.sections[j].content
                    = bb.sections[i].content
         /\ \E call \in SummaryCalls :
              /\ ~call.threw
              /\ [artifacts' EXCEPT !.savedSummary = TRUE,
                                    !.summaryFile = NoSummary]
                 = [saveArtifacts(artifacts, "", agentMessages,
                                  artifacts'.written, call, bb)
                      EXCEPT !.savedSummary = TRUE, !.summaryFile = NoSummary]
         /\ artifacts'.success /\ artifacts'.error = ""
         /\ artifacts'.conversation = agentMessages
         /\ raised' = (IF artifacts'.written THEN "" ELSE SaveError)
         /\ bb' = bb /\ stats' = stats /\ events' = events ]_vars
  /\ [](pc = "done" /\ artifacts.summaryFile.failed /\ artifacts.written
          => raised = "")

\* the summary call failed after a run that wrote a section, the
\* placeholder with that section was saved and analyze() returned
C33_Witness ==
  /\ pc = "done" /\ raised = ""
  /\ artifacts.written /\ artifacts.savedSummary
  /\ artifacts.summaryFile.failed
  /\ artifacts.summaryFile.text = "529 overloaded"
  /\ Len(artifacts.summaryFile.markdown.sections) = 1
  /\ artifacts.summaryFile.markdown.sections[1].heading = "Overview"
  /\ artifacts.summaryFile.markdown.tokens > 0
  /\ Last(events) = "complete"

\* C34 (as claimed): findSessionByPath(p) never fails; it returns null when
\* no file of the directory holds a loadable session with target path p,
\* and otherwise a stored session with target path p whose updatedAt is the
\* largest among those; files that hold no loadable session and sessions of
\* another target path make no difference.
C34_FindSessionByPath ==
  sessionQuery.called =>
    LET p == sessionQuery.targetPath
        stored == { i \in 1..Len(sessionFiles) :
                      /\ sessionFiles[i].kind = "session"
                      /\ sessionFiles[i].targetPath = p }
    IN /\ ~sessionQuery.threw
       /\ sessionQuery.found = (stored # {})
       /\ sessionQuery.found =>
            /\ \E i \in stored :
                 /\ sessionQuery.session.id = <<"bb", i>>
                 /\ sessionQuery.session.targetPath = p
                 /\ sessionQuery.session.updatedAt = sessionFiles[i].updatedAt
            /\ \A i \in stored :
                 sessionFiles[i].updatedAt <= sessionQuery.session.updatedAt

\* C35: grepSearch returns at most maxResults matches, and they are the
\* first maxResults matches of the traversal (all of them when there are
\* fewer); once maxResults matches are collected no further line is matched
\* and no further file is read.
C35_GrepStopsAtMaxResults ==
  grepCall.called =>
    LET RECURSIVE Flat(_)
        Flat(seqs) == IF seqs = <<>> THEN <<>>
                      ELSE Head(seqs) \o Flat(Tail(seqs))
        \* the matching lines of a file that can be read
        Hits(file, path) ==
          IF file.kind = "unreadable" THEN <<>>
          ELSE SelectSeq([n \in 1..Len(file.lines) |->
                            [file |-> path, line |-> n]],
                         LAMBDA h : file.lines[h.line])
        InDirectory(file, path) ==
          IF file.kind = "skipped" THEN <<>> ELSE Hits(file, path)
        Under(entry, path) ==
          IF entry.type = "file" THEN InDirectory(entry, path)
          ELSE Flat([j \in 1..Len(entry.entries) |->
                       InDirectory(entry.entries[j], Append(path, j))])
        \* every match below targetPath, in traversal order
        all == IF grepTarget.type = "file" THEN Hits(grepTarget, <<>>)
               ELSE Flat([i \in 1..Len(grepTarget.entries) |->
                            Under(grepTarget.entries[i], <<i>>)])
        results == grepCall.ctx.results
        limit == grepCall.maxResults
    IN /\ Len(results) <= limit
       /\ results = SubSeq(all, 1, IF Len(all) < limit THEN Len(all) ELSE limit)
       /\ Len(results) = limit =>
            /\ Last(grepCall.ctx.tested) = Last(results)
            /\ Last(grepCall.ctx.reads) = Last(results).file

\* a search limited to two matches took one from a first file and the
\* second from a file in a subdirectory, and left the file after it unread
C35_Witness ==
  /\ grepCall.called /\ grepCall.maxResults = 2
  /\ grepCall.ctx.results = << [file |-> <<1>>, line |-> 1],
                               [file |-> <<2, 1>>, line |-> 2] >>
  /\ grepCall.ctx.reads = << <<1>>, <<2, 1>> >>
  /\ Len(grepTarget.entries[2].entries) = 2
  /\ grepTarget.entries[2].entries[2].kind = "text"

\* C36 (as claimed): in the archive and in the rolling window every
\* assistant message is followed by a user message that holds exactly one
\* tool result, with the same id, for each of its tool invocations and no
\* other result; so a nudge never follows an assistant message with tool
\* invocations.
C36_ToolUseAnswered ==
  \A recorded \in {messages, workingMessages} :
    \A i \in 1..Len(recorded) :
      recorded[i].role = "assistant" =>
        /\ i < Len(recorded)
        /\ recorded[i + 1].role = "user"
        /\ LET uses    == SelectSeq(recorded[i].blocks, IsToolUse)
               results == recorded[i + 1].results
           IN /\ Len(results) = Len(uses)
              /\ \A k \in 1..Len(uses) :
                   Cardinality({n \in 1..Len(results) :
                                  results[n].tool_use_id = uses[k].id}) = 1

\* C37 (as claimed): 'start' precedes every 'iteration' event, at most one of
\* 'complete' and 'error' is ever emitted and nothing after it, and when
\* analyze() has settled exactly one of them was emitted, also when the
\* final save failed.
C37_OneTerminalEvent ==
  LET terminal == {i \in 1..Len(events) : events[i] \in {"complete", "error"}}
  IN /\ \A i \in 1..Len(events) :
          events[i] = "iteration" =>
            \E j \in 1..(i - 1) : events[j] = "start"
     /\ Cardinality(terminal) <= 1
     /\ terminal \subseteq {Len(events)}
     /\ pc \in {"done", "failed", "rejected"} => Cardinality(terminal) = 1

\* C37 (amended): a run whose output folder could not be created settles
\* without any event; every other run emits 'start' first and before any
\* 'iteration', emits at most one of 'complete' and 'error' and nothing after
\* it, and has emitted exactly one of them when analyze() has settled:
\* 'error' when a model call threw, 'complete' when the loop ended, also
\* when the final save then failed.
C37_TerminalEventOfStartedRun ==
  LET terminal == {i \in 1..Len(events) : events[i] \in {"complete", "error"}}
  IN /\ pc \in {"idle", "rejected"} <=> events = <<>>
     /\ events # <<>> => events[1] = "start"
     /\ \A i \in 1..Len(events) :
          events[i] = "iteration" =>
            \E j \in 1..(i - 1) : events[j] = "start"
     /\ Cardinality(terminal) <= 1
     /\ terminal \subseteq {Len(events)}
     /\ pc = "failed" => Last(events) = "error"
     /\ pc \in {"saving", "done"} => Last(events) = "complete"
     /\ pc \notin {"saving", "done", "failed"} => terminal = {}

\* the final save of a run that had emitted 'complete' failed
C37_Witness ==
  /\ pc = "done"
  /\ raised = SaveError /\ ~artifacts.written
  /\ Last(events) = "complete"
  /\ stats.iterations > 0

\* C38 (as claimed): the compact line of a successful list_dir call counts
\* the items the listing found, the line of a successful grep_search counts
\* the matches found, and the line of a failed call carries the failure mark
\* and no count.
C38_CompactLineCounts ==
  historyLine # <<>> =>
    LET line == historyLine[1]
    IN IF ~historyCall.success
       THEN ~line.mark /\ line.count.unit = "failed" /\ line.count.n = -1
       ELSE /\ line.mark
            /\ historyCall.name = "list_dir" =>
                 line.count = [n |-> Len(historyCall.files), unit |-> "items"]
            /\ historyCall.name = "grep_search" =>
                 line.count = [n |-> Len(historyCall.results),
                               unit |-> "matches"]

====
